---- MODULE Spec2Model ----
(***************************************************************************)
(* Order lifecycle and inventory of the e-commerce backend                 *)
(* (backend/app/api/v1/endpoints/orders.py and the models it uses).        *)
(*                                                                         *)
(* The database is four collections (products, users, orders, carts).     *)
(* Every handler is an asyncio coroutine: the code between two awaited    *)
(* database calls runs without interruption, and each awaited database    *)
(* call is one atomic step.  A step of the model is therefore one         *)
(* database call together with the local code that follows it up to the   *)
(* next database call.  Documents are loaded as copies and written back   *)
(* whole by save().                                                       *)
(*                                                                         *)
(* Money is counted in integer cents.  Timestamps, transaction ids, sku   *)
(* and display names are left out; order_number is the fresh document id. *)
(***************************************************************************)
EXTENDS Integers, Sequences, FiniteSets, TLC

VARIABLES products, users, orders, carts, reviews, review_votes, pc, loc, result, hist

vars == <<products, users, orders, carts, reviews, review_votes, pc, loc, result, hist>>

db == <<products, users, orders, carts>>

(***************************************************************************)
(* Bounds of the model.                                                    *)
(***************************************************************************)
MaxOrders == 2

MaxLines == 2

\* an add_item_to_cart request starts only while its cart holds fewer units
MaxCartUnits == 3

\* an add_user_address request starts only while the user has fewer addresses
MaxAddresses == 3

\* a create_review request starts only while fewer reviews are stored
MaxReviews == 4

Requests == {"r1", "r2"}

(***************************************************************************)
(* Program constants of calculate_order_totals and Cart.calculate_totals.  *)
(***************************************************************************)
TaxRatePercent == 8

FreeShippingThreshold == 5000

ShippingFlatFee == 999

(***************************************************************************)
(* The catalogue and the accounts the requests run against.                *)
(***************************************************************************)
Variant(vid, price, quantity) ==
    [variant_id |-> vid, price |-> price,
     inventory |-> [quantity |-> quantity, reserved |-> 0]]

InitProducts ==
    [p \in {"p1", "p2"} |->
        IF p = "p1"
        THEN [name |-> "Lamp",
              variants |-> <<Variant("v1", 1255, 1), Variant("v2", 2500, 2)>>,
              rating_summary |-> [total_reviews |-> 0]]
        ELSE [name |-> "Desk",
              variants |-> <<Variant("v1", 2499, 1)>>,
              rating_summary |-> [total_reviews |-> 0]]]

LoyaltyProgram == [points |-> 0, tier |-> "bronze", lifetime_spent |-> 0]

Address(address_id, type, is_default) ==
    [address_id |-> address_id, type |-> type, is_default |-> is_default]

InitUsers ==
    [u \in {"u1", "u2"} |->
        IF u = "u1"
        THEN [addresses |-> <<Address("a1", "shipping", TRUE),
                              Address("a2", "billing", FALSE)>>,
              payment_methods |-> <<[method_id |-> "pm1", type |-> "credit_card"]>>,
              loyalty |-> LoyaltyProgram]
        ELSE [addresses |-> <<Address("a3", "shipping", FALSE)>>,
              payment_methods |-> <<[method_id |-> "pm2", type |-> "paypal"]>>,
              loyalty |-> LoyaltyProgram]]

(***************************************************************************)
(* Cart model (models/cart.py).  estimated_tax and estimated_total are not *)
(* rounded by the code: they are kept in hundredths of a cent.             *)
(***************************************************************************)
RECURSIVE CartCount(_)
CartCount(items) ==
    IF items = <<>> THEN 0 ELSE Head(items).quantity + CartCount(Tail(items))

RECURSIVE CartSubtotal(_)
CartSubtotal(items) ==
    IF items = <<>> THEN 0
    ELSE Head(items).price * Head(items).quantity + CartSubtotal(Tail(items))

calculate_totals(cart) ==
    LET subtotal == CartSubtotal(cart.items)
        estimated_tax == subtotal * TaxRatePercent
        estimated_shipping ==
            IF subtotal >= FreeShippingThreshold THEN 0 ELSE ShippingFlatFee
    IN [cart EXCEPT !.totals =
            [items_count |-> CartCount(cart.items),
             subtotal |-> subtotal,
             estimated_tax |-> estimated_tax,
             estimated_shipping |-> estimated_shipping,
             estimated_total |->
                 subtotal * 100 + estimated_tax + estimated_shipping * 100]]

\* a clear that recomputes the totals and keeps the items
clear_cart_keeps_items(cart) == calculate_totals(cart)

\* cart.py 130-134: items = [] and the totals recomputed
clear_cart(cart) == calculate_totals([cart EXCEPT !.items = <<>>])

CartItem(pid, vid, quantity, price) ==
    [product_id |-> pid, variant_id |-> vid, quantity |-> quantity, price |-> price]

CartDoc(user_id, session_id, items) ==
    calculate_totals(
        [user_id |-> user_id, session_id |-> session_id, items |-> items,
         totals |-> [items_count |-> 0, subtotal |-> 0, estimated_tax |-> 0,
                     estimated_shipping |-> 0, estimated_total |-> 0]])

(***************************************************************************)
(* Reviews (models/review.py) and the document classes handed to           *)
(* init_beanie (core/database.py 54-58).                                   *)
(***************************************************************************)
Review(product_id, user_id) ==
    [product_id |-> product_id, user_id |-> user_id, order_id |-> 0,
     verified_purchase |-> FALSE, helpful_votes |-> 0, total_votes |-> 0]

\* the reviews collection, by document id: one review by each user
InitReviews ==
    [v \in {"rv1", "rv2"} |->
        IF v = "rv1" THEN Review("p1", "u1") ELSE Review("p2", "u2")]

document_models == {"User", "Product", "Category", "Order", "Review", "Cart", "Store"}

\* the ids new reviews are stored under
NewReviewIds == {"rv3", "rv4", "rv5", "rv6"}

\* the carts collection, by document id: the cart of u1 and the carts of two
\* anonymous sessions, of which the second is empty; u2 has no cart
InitCarts ==
    [c \in 1..3 |->
        IF c = 1 THEN CartDoc("u1", "None", <<CartItem("p1", "v1", 1, 1255)>>)
        ELSE IF c = 2 THEN CartDoc("None", "s1", <<CartItem("p1", "v2", 1, 2500)>>)
        ELSE CartDoc("None", "s2", <<>>)]

\* Cart.find_one(Cart.user_id == uid): id of the first match, 0 for None
Cart_find_one(uid) ==
    LET hits == {i \in DOMAIN carts : carts[i].user_id = uid}
    IN IF hits = {} THEN 0 ELSE CHOOSE i \in hits : \A j \in hits : i <= j

\* Cart.find_one(Cart.session_id == sid): id of the first match, 0 for None
Cart_find_one_by_session(sid) ==
    LET hits == {i \in DOMAIN carts : carts[i].session_id = sid}
    IN IF hits = {} THEN 0 ELSE CHOOSE i \in hits : \A j \in hits : i <= j

\* cart.save(): the document replaces the stored one, or is inserted again
\* when the stored one has been deleted
Cart_save(cart_id, cart) ==
    [c \in DOMAIN carts \cup {cart_id} |-> IF c = cart_id THEN cart ELSE carts[c]]

\* cart.delete()
Cart_delete(cart_id) == [c \in DOMAIN carts \ {cart_id} |-> carts[c]]

\* place of the first item of this product and variant, 0 when there is none
find_item(items, product_id, variant_id) ==
    LET hits == {i \in 1..Len(items) : /\ items[i].product_id = product_id
                                       /\ items[i].variant_id = variant_id}
    IN IF hits = {} THEN 0 ELSE CHOOSE i \in hits : \A j \in hits : i <= j

pop(items, i) == SubSeq(items, 1, i - 1) \o SubSeq(items, i + 1, Len(items))

\* cart.py 81-102: the quantity is added to the matching item, or a new item
\* with the given price is appended; the totals are recomputed
add_item(cart, product_id, variant_id, quantity, price) ==
    LET i == find_item(cart.items, product_id, variant_id)
    IN calculate_totals(
          IF i # 0
          THEN [cart EXCEPT !.items[i].quantity = @ + quantity]
          ELSE [cart EXCEPT !.items =
                   Append(@, CartItem(product_id, variant_id, quantity, price))])

\* cart.py 104-118: the returned flag and the cart after the call
update_item_quantity(cart, product_id, variant_id, quantity) ==
    LET i == find_item(cart.items, product_id, variant_id)
    IN IF i = 0 THEN [success |-> FALSE, cart |-> cart]
       ELSE [success |-> TRUE,
             cart |-> calculate_totals(
                 IF quantity <= 0
                 THEN [cart EXCEPT !.items = pop(@, i)]
                 ELSE [cart EXCEPT !.items[i].quantity = quantity])]

\* cart.py 120-128: the returned flag and the cart after the call
remove_item(cart, product_id, variant_id) ==
    LET i == find_item(cart.items, product_id, variant_id)
    IN IF i = 0 THEN [success |-> FALSE, cart |-> cart]
       ELSE [success |-> TRUE,
             cart |-> calculate_totals([cart EXCEPT !.items = pop(@, i)])]

is_empty(cart) == Len(cart.items) = 0

(***************************************************************************)
(* Product model (models/product.py).                                      *)
(***************************************************************************)
\* InventoryInfo declares quantity >= 0 and reserved >= 0.  Assignments and
\* save() do not validate; loading a document from the database does.
InventoryInfo_valid(inventory) ==
    inventory.quantity >= 0 /\ inventory.reserved >= 0

Product_valid(product) ==
    \A i \in 1..Len(product.variants) :
        InventoryInfo_valid(product.variants[i].inventory)

\* index of the first variant with this id, 0 for None
get_variant_by_id(product, variant_id) ==
    LET hits == {i \in 1..Len(product.variants) :
                    product.variants[i].variant_id = variant_id}
    IN IF hits = {} THEN 0 ELSE CHOOSE i \in hits : \A j \in hits : i <= j

\* orders.py 134: the stock check of one order line
insufficient_stock(variant, quantity) == variant.inventory.quantity < quantity

\* a reservation that forgets inventory.reserved
reserve_stock_quantity_only(product, variant_id, n) ==
    LET i == get_variant_by_id(product, variant_id)
    IN IF i = 0 THEN product
       ELSE [product EXCEPT !.variants[i].inventory.quantity = @ - n]

\* orders.py 193-197: quantity -= n, reserved += n on the first matching variant
reserve_stock(product, variant_id, n) ==
    LET i == get_variant_by_id(product, variant_id)
    IN IF i = 0 THEN product
       ELSE [product EXCEPT
                !.variants[i].inventory.quantity = @ - n,
                !.variants[i].inventory.reserved = @ + n]

\* a restore that forgets inventory.reserved
restore_stock_quantity_only(product, variant_id, n) ==
    LET i == get_variant_by_id(product, variant_id)
    IN IF i = 0 THEN product
       ELSE [product EXCEPT !.variants[i].inventory.quantity = @ + n]

\* orders.py 385-389: quantity += n, reserved -= n on the first matching variant
restore_stock(product, variant_id, n) ==
    LET i == get_variant_by_id(product, variant_id)
    IN IF i = 0 THEN product
       ELSE [product EXCEPT
                !.variants[i].inventory.quantity = @ + n,
                !.variants[i].inventory.reserved = @ - n]

(***************************************************************************)
(* User model (models/user.py).                                            *)
(***************************************************************************)
\* tiers that start strictly above each threshold
loyalty_tier_above(lifetime_spent) ==
    IF lifetime_spent > 500000 THEN "platinum"
    ELSE IF lifetime_spent > 250000 THEN "gold"
    ELSE IF lifetime_spent > 100000 THEN "silver"
    ELSE "bronze"

\* user.py 139-147: the tier of a lifetime spending, in cents
loyalty_tier(lifetime_spent) ==
    IF lifetime_spent >= 500000 THEN "platinum"
    ELSE IF lifetime_spent >= 250000 THEN "gold"
    ELSE IF lifetime_spent >= 100000 THEN "silver"
    ELSE "bronze"

\* an award that replaces the balance instead of adding to it
add_loyalty_points_overwrite(user, points, amount_spent) ==
    [user EXCEPT !.loyalty =
        [points |-> points, lifetime_spent |-> amount_spent,
         tier |-> loyalty_tier(amount_spent)]]

add_loyalty_points(user, points, amount_spent) ==
    LET spent == user.loyalty.lifetime_spent + amount_spent
    IN [user EXCEPT !.loyalty =
            [points |-> user.loyalty.points + points,
             lifetime_spent |-> spent,
             tier |-> loyalty_tier(spent)]]

\* index of the first address with this id, 0 when none matches
find_address(user, address_id) ==
    LET hits == {i \in 1..Len(user.addresses) :
                    user.addresses[i].address_id = address_id}
    IN IF hits = {} THEN 0 ELSE CHOOSE i \in hits : \A j \in hits : i <= j

find_payment_method(user, method_id) ==
    LET hits == {i \in 1..Len(user.payment_methods) :
                    user.payment_methods[i].method_id = method_id}
    IN IF hits = {} THEN 0 ELSE CHOOSE i \in hits : \A j \in hits : i <= j

(***************************************************************************)
(* Order model (models/order.py) and calculate_order_totals.               *)
(***************************************************************************)
\* Python round(x, 2) of an amount n/d cents: to the nearest cent, ties to even
RoundCents(n, d) ==
    LET q == n \div d
        r == n % d
    IN IF 2 * r < d THEN q
       ELSE IF 2 * r > d THEN q + 1
       ELSE IF q % 2 = 0 THEN q ELSE q + 1

RECURSIVE SumTotals(_)
SumTotals(items) ==
    IF items = <<>> THEN 0 ELSE Head(items).total + SumTotals(Tail(items))

\* free shipping only strictly above the threshold
calculate_order_totals_free_above(items) ==
    LET subtotal == SumTotals(items)
        tax == RoundCents(subtotal * TaxRatePercent, 100)
        shipping == IF subtotal > FreeShippingThreshold THEN 0 ELSE ShippingFlatFee
        total == subtotal + tax + shipping
    IN [subtotal |-> subtotal, tax |-> tax, shipping |-> shipping,
        discount |-> 0, total |-> RoundCents(total, 1)]

calculate_order_totals(items) ==
    LET subtotal == SumTotals(items)
        tax == RoundCents(subtotal * TaxRatePercent, 100)
        shipping == IF subtotal >= FreeShippingThreshold THEN 0 ELSE ShippingFlatFee
        discount == 0
        total == subtotal + tax + shipping - discount
    IN [subtotal |-> subtotal, tax |-> tax, shipping |-> shipping,
        discount |-> discount, total |-> RoundCents(total, 1)]

\* an ownership check that lets every caller through
access_denied_never(order, current_user_id) == FALSE

\* orders.py 322, 372, 441: the ownership check
access_denied(order, current_user_id) == order.user_id # current_user_id

\* a transition check that forgets the order's current status
can_cancel_any_order(order, status_update) == status_update.status = "cancelled"

\* orders.py 378: the only transition update_order_status performs
can_cancel(order, status_update) ==
    status_update.status = "cancelled" /\ order.status = "pending"

\* a timeline append that leaves order.status alone
add_timeline_entry_keeps_status(order, status, note) ==
    [order EXCEPT !.timeline = Append(@, [status |-> status, note |-> note])]

add_timeline_entry(order, status, note) ==
    [order EXCEPT !.timeline = Append(@, [status |-> status, note |-> note]),
                  !.status = status]

\* orders.py 143-153: the snapshot of a line.  Its name is built from the
\* product's name and the variant's name; no handler changes a variant's name,
\* so the product's name stands for it
OrderItem(item_data, product, variant) ==
    [product_id |-> item_data.product_id,
     variant_id |-> item_data.variant_id,
     name |-> product.name,
     price |-> variant.price,
     quantity |-> item_data.quantity,
     total |-> variant.price * item_data.quantity]

\* orders.py 157-185: summary, payment, Order(...) and the first timeline entry
new_order(order_number, user_id, order_items, shipping, billing, payment_method) ==
    LET order_summary == calculate_order_totals(order_items)
        payment_info == [method |-> payment_method.type, status |-> "pending",
                         amount |-> order_summary.total]
        order == [order_number |-> order_number,
                  user_id |-> user_id,
                  status |-> "pending",
                  items |-> order_items,
                  summary |-> order_summary,
                  shipping_address |-> shipping,
                  billing_address |-> billing,
                  payment |-> payment_info,
                  timeline |-> <<>>]
    IN add_timeline_entry(order, "pending", "Order placed")

(***************************************************************************)
(* Requests.  A request slot holds the local variables of one running      *)
(* handler; result is the HTTP response it ended with.                     *)
(***************************************************************************)
Response(code, detail, available) ==
    [code |-> code, detail |-> detail, available |-> available]

NoResponse == Response(0, "", -1)

NoAddress == Address("None", "None", FALSE)

NoPaymentMethod == [method_id |-> "None", type |-> "None"]

NoUser == [addresses |-> <<>>, payment_methods |-> <<>>, loyalty |-> LoyaltyProgram]

NoProduct ==
    [name |-> "None", variants |-> <<>>, rating_summary |-> [total_reviews |-> 0]]

NoOrder ==
    [order_number |-> 0, user_id |-> "None", status |-> "None", items |-> <<>>,
     summary |-> [subtotal |-> 0, tax |-> 0, shipping |-> 0, discount |-> 0,
                  total |-> 0],
     shipping_address |-> NoAddress, billing_address |-> NoAddress,
     payment |-> [method |-> "None", status |-> "None", amount |-> 0],
     timeline |-> <<>>]

NoCart == CartDoc("None", "None", <<>>)

NoCartItem == [product_id |-> "None", variant_id |-> "None", quantity |-> 0]

NoOrderCreate ==
    [items |-> <<>>, shipping_address_id |-> "None",
     billing_address_id |-> "None", payment_method_id |-> "None"]

NoStatusUpdate == [status |-> "None", note |-> "None"]

IdleLoc ==
    [op |-> "none", current_user_id |-> "None",
     order_data |-> NoOrderCreate, order_id |-> 0, status_update |-> NoStatusUpdate,
     user |-> NoUser, shipping_address |-> NoAddress,
     billing_address |-> NoAddress, payment_method |-> NoPaymentMethod,
     i |-> 0, order_items |-> <<>>, order |-> NoOrder,
     product |-> NoProduct, cart_id |-> 0, cart |-> NoCart,
     status |-> "None", page |-> 0, limit |-> 0, total |-> 0, total_pages |-> 0,
     orders |-> <<>>, order_number |-> 0,
     item_data |-> NoCartItem, price |-> 0, session_id |-> "None",
     anonymous_id |-> 0, anonymous_cart |-> NoCart,
     review_id |-> "None", is_helpful |-> FALSE, address |-> NoAddress,
     review |-> Review("None", "None")]

\* the inputs of the requests
CallerIds == {"u1", "u2", "u9"}

OrderItemCreate(pid, vid, quantity) ==
    [product_id |-> pid, variant_id |-> vid, quantity |-> quantity]

ItemChoices ==
    { OrderItemCreate("p1", "v1", 1), OrderItemCreate("p1", "v1", 2),
      OrderItemCreate("p1", "v2", 1), OrderItemCreate("p2", "v1", 1),
      OrderItemCreate("p9", "v1", 1), OrderItemCreate("p1", "v9", 1) }

ItemLists == UNION {[1..n -> ItemChoices] : n \in 1..MaxLines}

OrderCreate(items, shipping_address_id, billing_address_id, payment_method_id) ==
    [items |-> items, shipping_address_id |-> shipping_address_id,
     billing_address_id |-> billing_address_id,
     payment_method_id |-> payment_method_id]

OrderCreates ==
    UNION { { OrderCreate(items, "a1", "None", "pm1"),
              OrderCreate(items, "a1", "a2", "pm1"),
              OrderCreate(items, "a3", "None", "pm2"),
              OrderCreate(items, "a1", "None", "pm2") } : items \in ItemLists }

OrderStatusUpdates ==
    [status : {"cancelled", "pending", "shipped"}, note : {"changed my mind"}]

\* the requests of the serial runs
AllRequests ==
    [callers |-> CallerIds, creates |-> OrderCreates, updates |-> OrderStatusUpdates]

\* the requests of the interleaved runs
ConcurrentItemLists ==
    { <<OrderItemCreate("p1", "v1", 1)>>,
      <<OrderItemCreate("p1", "v2", 1)>>,
      <<OrderItemCreate("p2", "v1", 1), OrderItemCreate("p1", "v1", 1)>> }

ConcurrentRequests ==
    [callers |-> {"u1", "u2"},
     creates |-> {OrderCreate(items, "a1", "None", "pm1") :
                     items \in ConcurrentItemLists},
     updates |-> OrderStatusUpdates]

OrderIds == 1..MaxOrders

\* create_order requests that have not inserted their order yet
PendingInserts == {q \in Requests : pc[q] \in {"co_check_item", "co_save_order"}}

Finish(r, response) ==
    /\ pc' = [pc EXCEPT ![r] = "done"]
    /\ result' = [result EXCEPT ![r] = response]

Goto(r, label) ==
    /\ pc' = [pc EXCEPT ![r] = label]
    /\ UNCHANGED result

(***************************************************************************)
(* create_order (orders.py 55-226)                                         *)
(***************************************************************************)
\* 72-111: User.get, then the address and payment method lookups
create_order_get_user(r, current_user_id, order_data) ==
    /\ pc[r] = "idle"
    /\ Len(orders) + Cardinality(PendingInserts) < MaxOrders
    /\ UNCHANGED db
    /\ LET l0 == [IdleLoc EXCEPT !.op = "create_order",
                                 !.current_user_id = current_user_id,
                                 !.order_data = order_data]
       IN IF current_user_id \notin DOMAIN users
          THEN /\ Finish(r, Response(404, "User not found", -1))
               /\ loc' = [loc EXCEPT ![r] = l0]
          ELSE
          LET user == users[current_user_id]
              si == find_address(user, order_data.shipping_address_id)
              bi == IF order_data.billing_address_id # "None"
                    THEN find_address(user, order_data.billing_address_id)
                    ELSE 0
              pi == find_payment_method(user, order_data.payment_method_id)
          IN IF si = 0
             THEN /\ Finish(r, Response(404, "Shipping address not found", -1))
                  /\ loc' = [loc EXCEPT ![r] = l0]
             ELSE IF pi = 0
             THEN /\ Finish(r, Response(404, "Payment method not found", -1))
                  /\ loc' = [loc EXCEPT ![r] = l0]
             ELSE /\ Goto(r, "co_check_item")
                  /\ loc' = [loc EXCEPT ![r] =
                        [l0 EXCEPT
                            !.user = user,
                            !.shipping_address = user.addresses[si],
                            !.billing_address =
                                IF bi # 0 THEN user.addresses[bi]
                                ELSE user.addresses[si],
                            !.payment_method = user.payment_methods[pi],
                            !.i = 1]]

\* 117-185: one turn of the validation loop: Product.get, the variant lookup,
\* the stock check and the order item; after the last line, the order is built
create_order_check_item(r) ==
    /\ pc[r] = "co_check_item"
    /\ UNCHANGED db
    /\ LET l == loc[r]
           item_data == l.order_data.items[l.i]
       IN IF item_data.product_id \notin DOMAIN products
          THEN /\ Finish(r, Response(404, "Product not found", -1))
               /\ UNCHANGED loc
          ELSE
          LET product == products[item_data.product_id]
              vi == get_variant_by_id(product, item_data.variant_id)
          IN IF ~Product_valid(product)
             THEN /\ Finish(r, Response(500, "ValidationError", -1))
                  /\ UNCHANGED loc
             ELSE IF vi = 0
             THEN /\ Finish(r, Response(404, "Product variant not found", -1))
                  /\ UNCHANGED loc
             ELSE IF insufficient_stock(product.variants[vi], item_data.quantity)
             THEN /\ Finish(r, Response(400, "Insufficient stock",
                                        product.variants[vi].inventory.quantity))
                  /\ UNCHANGED loc
             ELSE
             LET order_items ==
                     Append(l.order_items, OrderItem(item_data, product,
                                                     product.variants[vi]))
             IN IF l.i < Len(l.order_data.items)
                THEN /\ Goto(r, "co_check_item")
                     /\ loc' = [loc EXCEPT ![r].order_items = order_items,
                                           ![r].i = l.i + 1]
                ELSE /\ Goto(r, "co_save_order")
                     /\ loc' = [loc EXCEPT
                           ![r].order_items = order_items,
                           ![r].order =
                               new_order(0, l.current_user_id, order_items,
                                         l.shipping_address, l.billing_address,
                                         l.payment_method)]

\* 187: order.save() inserts the order; the reservation loop starts
create_order_save_order(r) ==
    /\ pc[r] = "co_save_order"
    /\ LET order_id == Len(orders) + 1
           order == [loc[r].order EXCEPT !.order_number = order_id]
       IN /\ orders' = Append(orders, order)
          /\ loc' = [loc EXCEPT ![r].order = order, ![r].order_id = order_id,
                                ![r].i = 1]
    /\ Goto(r, "co_reserve_get")
    /\ UNCHANGED <<products, users, carts>>

\* after the reservation loop: 201-208, Cart.find_one and what follows it
create_order_after_reserve(r, l) ==
    LET cart_id == Cart_find_one(l.current_user_id)
    IN IF cart_id # 0
       THEN /\ Goto(r, "co_save_cart")
            /\ loc' = [loc EXCEPT ![r] =
                  [l EXCEPT !.cart_id = cart_id,
                            !.cart = clear_cart(carts[cart_id])]]
       ELSE /\ Goto(r, "co_save_user")
            /\ loc' = [loc EXCEPT ![r] =
                  [l EXCEPT !.user = add_loyalty_points(
                                @, l.order.summary.total \div 100,
                                l.order.summary.total)]]

\* 190-197: Product.get for line i and the change of the loaded copy
create_order_reserve_get(r) ==
    /\ pc[r] = "co_reserve_get"
    /\ UNCHANGED db
    /\ LET l == loc[r]
           item_data == l.order_data.items[l.i]
       IN IF item_data.product_id \notin DOMAIN products
          THEN IF l.i < Len(l.order_data.items)
               THEN /\ Goto(r, "co_reserve_get")
                    /\ loc' = [loc EXCEPT ![r].i = l.i + 1]
               ELSE /\ Goto(r, "co_find_cart")
                    /\ UNCHANGED loc
          ELSE IF ~Product_valid(products[item_data.product_id])
          THEN /\ Finish(r, Response(500, "ValidationError", -1))
               /\ UNCHANGED loc
          ELSE /\ Goto(r, "co_reserve_save")
               /\ loc' = [loc EXCEPT ![r].product =
                     reserve_stock(products[item_data.product_id],
                                   item_data.variant_id, item_data.quantity)]

\* 198: product.save() writes the whole loaded document back
create_order_reserve_save(r) ==
    /\ pc[r] = "co_reserve_save"
    /\ LET l == loc[r]
           item_data == l.order_data.items[l.i]
       IN /\ products' = [products EXCEPT ![item_data.product_id] = l.product]
          /\ IF l.i < Len(l.order_data.items)
             THEN /\ Goto(r, "co_reserve_get")
                  /\ loc' = [loc EXCEPT ![r].i = l.i + 1]
             ELSE /\ Goto(r, "co_find_cart")
                  /\ UNCHANGED loc
    /\ UNCHANGED <<users, orders, carts>>

\* 201-208: Cart.find_one; the cart is cleared, or the loyalty points are added
create_order_find_cart(r) ==
    /\ pc[r] = "co_find_cart"
    /\ create_order_after_reserve(r, loc[r])
    /\ UNCHANGED db

\* 204-208: user_cart.save(), then the loyalty points on the loaded user
create_order_save_cart(r) ==
    /\ pc[r] = "co_save_cart"
    /\ LET l == loc[r]
       IN /\ carts' = Cart_save(l.cart_id, l.cart)
          /\ loc' = [loc EXCEPT ![r].user =
                add_loyalty_points(@, l.order.summary.total \div 100,
                                   l.order.summary.total)]
    /\ Goto(r, "co_save_user")
    /\ UNCHANGED <<products, users, orders>>

\* 209-226: user.save() writes the whole loaded user back; 201 Created
create_order_save_user(r) ==
    /\ pc[r] = "co_save_user"
    /\ users' = [users EXCEPT ![loc[r].current_user_id] = loc[r].user]
    /\ Finish(r, Response(201, "Created", -1))
    /\ UNCHANGED <<products, orders, carts, loc>>

(***************************************************************************)
(* update_order_status (orders.py 346-414)                                 *)
(***************************************************************************)
\* 365-379: Order.get, the ownership check, the transition check and the
\* timeline entry on the loaded order
update_order_status_get_order(r, current_user_id, order_id, status_update) ==
    /\ pc[r] = "idle"
    /\ UNCHANGED db
    /\ LET l0 == [IdleLoc EXCEPT !.op = "update_order_status",
                                 !.current_user_id = current_user_id,
                                 !.order_id = order_id,
                                 !.status_update = status_update]
       IN IF order_id \notin 1..Len(orders)
          THEN /\ Finish(r, Response(404, "Order not found", -1))
               /\ loc' = [loc EXCEPT ![r] = l0]
          ELSE IF access_denied(orders[order_id], current_user_id)
          THEN /\ Finish(r, Response(403, "Access denied", -1))
               /\ loc' = [loc EXCEPT ![r] = l0]
          ELSE IF can_cancel(orders[order_id], status_update)
          THEN /\ Goto(r, "uo_restore_get")
               /\ loc' = [loc EXCEPT ![r] =
                     [l0 EXCEPT !.order = add_timeline_entry(
                                    orders[order_id], status_update.status,
                                    status_update.note),
                                !.i = 1]]
          ELSE /\ Finish(r, Response(400, "Invalid status update", -1))
               /\ loc' = [loc EXCEPT ![r] = l0]

\* 382-389: Product.get for item i of the order and the change of the copy
update_order_status_restore_get(r) ==
    /\ pc[r] = "uo_restore_get"
    /\ UNCHANGED db
    /\ LET l == loc[r]
           item == l.order.items[l.i]
       IN IF item.product_id \notin DOMAIN products
          THEN IF l.i < Len(l.order.items)
               THEN /\ Goto(r, "uo_restore_get")
                    /\ loc' = [loc EXCEPT ![r].i = l.i + 1]
               ELSE /\ Goto(r, "uo_save_order")
                    /\ UNCHANGED loc
          ELSE IF ~Product_valid(products[item.product_id])
          THEN /\ Finish(r, Response(500, "ValidationError", -1))
               /\ UNCHANGED loc
          ELSE /\ Goto(r, "uo_restore_save")
               /\ loc' = [loc EXCEPT ![r].product =
                     restore_stock(products[item.product_id],
                                   item.variant_id, item.quantity)]

\* 390: product.save() writes the whole loaded document back
update_order_status_restore_save(r) ==
    /\ pc[r] = "uo_restore_save"
    /\ LET l == loc[r]
           item == l.order.items[l.i]
       IN /\ products' = [products EXCEPT ![item.product_id] = l.product]
          /\ IF l.i < Len(l.order.items)
             THEN /\ Goto(r, "uo_restore_get")
                  /\ loc' = [loc EXCEPT ![r].i = l.i + 1]
             ELSE /\ Goto(r, "uo_save_order")
                  /\ UNCHANGED loc
    /\ UNCHANGED <<users, orders, carts>>

\* 397-414: order.save() writes the whole loaded order back; 200 OK
update_order_status_save_order(r) ==
    /\ pc[r] = "uo_save_order"
    /\ orders' = [orders EXCEPT ![loc[r].order_id] = loc[r].order]
    /\ Finish(r, Response(200, "OK", -1))
    /\ UNCHANGED <<products, users, carts, loc>>

\* the response has been sent: the handler's frame is gone
respond(r) ==
    /\ pc[r] = "done"
    /\ pc' = [pc EXCEPT ![r] = "idle"]
    /\ loc' = [loc EXCEPT ![r] = IdleLoc]
    /\ result' = [result EXCEPT ![r] = NoResponse]
    /\ UNCHANGED db

(***************************************************************************)
(* The system: any number of requests, their database calls interleaved.   *)
(***************************************************************************)
NoHistory ==
    [db0 |-> [products |-> InitProducts, users |-> InitUsers, orders |-> <<>>,
              carts |-> InitCarts],
     order_inv0 |-> <<>>, last |-> 0, roundtrip |-> FALSE]

Init ==
    /\ products = InitProducts
    /\ users = InitUsers
    /\ orders = <<>>
    /\ carts = InitCarts
    /\ reviews = InitReviews
    /\ review_votes = <<>>
    /\ pc = [r \in Requests |-> "idle"]
    /\ loc = [r \in Requests |-> IdleLoc]
    /\ result = [r \in Requests |-> NoResponse]
    /\ hist = NoHistory

Step(r, m) ==
    \/ \E u \in m.callers, d \in m.creates : create_order_get_user(r, u, d)
    \/ create_order_check_item(r)
    \/ create_order_save_order(r)
    \/ create_order_reserve_get(r)
    \/ create_order_reserve_save(r)
    \/ create_order_find_cart(r)
    \/ create_order_save_cart(r)
    \/ create_order_save_user(r)
    \/ \E u \in m.callers, o \in OrderIds, s \in m.updates :
           update_order_status_get_order(r, u, o, s)
    \/ update_order_status_restore_get(r)
    \/ update_order_status_restore_save(r)
    \/ update_order_status_save_order(r)
    \/ respond(r)

\* runs of create_order requests alone
CreateOrderStep(r, m) ==
    \/ \E u \in m.callers, d \in m.creates : create_order_get_user(r, u, d)
    \/ create_order_check_item(r)
    \/ create_order_save_order(r)
    \/ create_order_reserve_get(r)
    \/ create_order_reserve_save(r)
    \/ create_order_find_cart(r)
    \/ create_order_save_cart(r)
    \/ create_order_save_user(r)
    \/ respond(r)

CreateOrderNext ==
    \E r \in Requests :
        /\ CreateOrderStep(r, ConcurrentRequests)
        /\ UNCHANGED <<hist, reviews, review_votes>>

CreateOrderSpec == Init /\ [][CreateOrderNext]_vars

Next ==
    \E r \in Requests :
        Step(r, ConcurrentRequests) /\ UNCHANGED <<hist, reviews, review_votes>>

Spec == Init /\ [][Next]_vars

(***************************************************************************)
(* Serial runs: a request starts only when no other is running.  hist is a *)
(* history variable of these runs and is read by no handler:               *)
(*   db0        the database when the running (or last) request started    *)
(*   order_inv0 for each order, the products when its create_order started *)
(*   last       the order that the last create_order inserted, while no    *)
(*              request has started since (0 otherwise)                    *)
(*   roundtrip  the running (or last) request is an update_order_status of *)
(*              the order that the request just before it created          *)
(***************************************************************************)
Serial(r) == \A q \in Requests \ {r} : pc[q] = "idle"

Record(r) ==
    hist' =
        IF pc[r] = "idle"
        THEN [hist EXCEPT !.db0 = [products |-> products, users |-> users,
                                   orders |-> orders, carts |-> carts],
                          !.roundtrip = /\ loc'[r].op = "update_order_status"
                                        /\ hist.last # 0
                                        /\ hist.last = loc'[r].order_id,
                          !.last = 0]
        ELSE IF pc[r] = "co_save_order"
        THEN [hist EXCEPT !.order_inv0 = Append(@, hist.db0.products),
                          !.last = Len(orders) + 1]
        ELSE hist

SerialNext ==
    \E r \in Requests :
        /\ Serial(r) /\ Step(r, AllRequests) /\ Record(r)
        /\ UNCHANGED <<reviews, review_votes>>

SerialSpec == Init /\ [][SerialNext]_vars

(***************************************************************************)
(* Loyalty runs: the same handlers, interleaved, for a user u1 whose        *)
(* lifetime spending stands just below a tier threshold, so that the next   *)
(* order total lands on the threshold or one cent short of it.              *)
(***************************************************************************)
\* the order of one p1/v1 costs 12.55 + 1.00 tax + 9.99 shipping = 23.54
LoyaltyStarts ==
    { [points |-> 0, tier |-> "bronze", lifetime_spent |-> 0],
      [points |-> 976, tier |-> "bronze", lifetime_spent |-> 100000 - 2354],
      [points |-> 976, tier |-> "bronze", lifetime_spent |-> 100000 - 2355],
      [points |-> 2476, tier |-> "silver", lifetime_spent |-> 250000 - 2354],
      [points |-> 2476, tier |-> "silver", lifetime_spent |-> 250000 - 2355],
      [points |-> 4976, tier |-> "gold", lifetime_spent |-> 500000 - 2354],
      [points |-> 4976, tier |-> "gold", lifetime_spent |-> 500000 - 2355] }

LoyaltyRequests ==
    [callers |-> {"u1"},
     creates |-> { OrderCreate(<<OrderItemCreate("p1", "v1", 1)>>, "a1", "None", "pm1"),
                   OrderCreate(<<OrderItemCreate("p1", "v2", 1)>>, "a1", "None", "pm1") },
     updates |-> [status : {"cancelled"}, note : {"changed my mind"}]]

LoyaltyInit ==
    /\ products = InitProducts
    /\ \E l \in LoyaltyStarts : users = [InitUsers EXCEPT !["u1"].loyalty = l]
    /\ orders = <<>>
    /\ carts = InitCarts
    /\ reviews = InitReviews
    /\ review_votes = <<>>
    /\ pc = [r \in Requests |-> "idle"]
    /\ loc = [r \in Requests |-> IdleLoc]
    /\ result = [r \in Requests |-> NoResponse]
    /\ hist = NoHistory

LoyaltyNext ==
    \E r \in Requests :
        Step(r, LoyaltyRequests) /\ UNCHANGED <<hist, reviews, review_votes>>

LoyaltySpec == LoyaltyInit /\ [][LoyaltyNext]_vars

(***************************************************************************)
(* The read endpoints of orders.py: get_user_orders (229-295), get_order   *)
(* (298-342) and get_order_by_number (417-461).                            *)
(***************************************************************************)
\* a find expression: the value each field must equal, "Any" for no condition
by_user_id(user_id) == [user_id |-> user_id, status |-> "Any"]

by_status(status) == [user_id |-> "Any", status |-> status]

\* a comparison expression is a mapping with one entry, so it is true in a
\* boolean context
truthy(query) == query.user_id # "Any" \/ query.status # "Any"

\* Python's "a and b" is a when a is false and b otherwise
python_and(a, b) == IF truthy(a) THEN b ELSE a

\* orders.py 249-251: the query of the order list
build_query(current_user_id, status) ==
    IF status # "None"
    THEN python_and(by_user_id(current_user_id), by_status(status))
    ELSE by_user_id(current_user_id)

matches(order, query) ==
    /\ query.user_id = "Any" \/ order.user_id = query.user_id
    /\ query.status = "Any" \/ order.status = query.status

Order_count(query) ==
    Cardinality({o \in 1..Len(orders) : matches(orders[o], query)})

\* Order.find(query).sort(-created_at): the newest of the first n orders first
RECURSIVE Order_find_sorted(_, _)
Order_find_sorted(query, n) ==
    IF n = 0 THEN <<>>
    ELSE (IF matches(orders[n], query) THEN <<orders[n]>> ELSE <<>>)
         \o Order_find_sorted(query, n - 1)

skip_limit(found, skip, limit) ==
    SubSeq(found, skip + 1,
           IF skip + limit < Len(found) THEN skip + limit ELSE Len(found))

\* Order.find_one(Order.order_number == n): index of the first match, 0 for None
Order_find_one(order_number) ==
    LET hits == {o \in 1..Len(orders) : orders[o].order_number = order_number}
    IN IF hits = {} THEN 0 ELSE CHOOSE i \in hits : \A j \in hits : i <= j

\* 248-254: the query is built and the matching orders are counted
get_user_orders_count(r, current_user_id, status, page, limit) ==
    /\ pc[r] = "idle"
    /\ UNCHANGED db
    /\ Goto(r, "go_find")
    /\ loc' = [loc EXCEPT ![r] =
          [IdleLoc EXCEPT
              !.op = "get_user_orders",
              !.current_user_id = current_user_id,
              !.status = status, !.page = page, !.limit = limit,
              !.total = Order_count(build_query(current_user_id, status))]]

\* 256-295: the page of matching orders is fetched and returned
get_user_orders_find(r) ==
    /\ pc[r] = "go_find"
    /\ UNCHANGED db
    /\ Finish(r, Response(200, "OK", -1))
    /\ LET l == loc[r]
           query == build_query(l.current_user_id, l.status)
           skip == (l.page - 1) * l.limit
       IN loc' = [loc EXCEPT
             ![r].orders = skip_limit(Order_find_sorted(query, Len(orders)),
                                      skip, l.limit),
             ![r].total_pages = (l.total + l.limit - 1) \div l.limit]

\* 315-342: Order.get, the ownership check, the order returned
get_order(r, current_user_id, order_id) ==
    /\ pc[r] = "idle"
    /\ UNCHANGED db
    /\ LET l0 == [IdleLoc EXCEPT !.op = "get_order",
                                 !.current_user_id = current_user_id,
                                 !.order_id = order_id]
       IN IF order_id \notin 1..Len(orders)
          THEN /\ Finish(r, Response(404, "Order not found", -1))
               /\ loc' = [loc EXCEPT ![r] = l0]
          ELSE IF access_denied(orders[order_id], current_user_id)
          THEN /\ Finish(r, Response(403, "Access denied", -1))
               /\ loc' = [loc EXCEPT ![r] = l0]
          ELSE /\ Finish(r, Response(200, "OK", -1))
               /\ loc' = [loc EXCEPT ![r] = [l0 EXCEPT !.order = orders[order_id]]]

\* 434-461: Order.find_one by order number, the ownership check, the order
get_order_by_number(r, current_user_id, order_number) ==
    /\ pc[r] = "idle"
    /\ UNCHANGED db
    /\ LET l0 == [IdleLoc EXCEPT !.op = "get_order_by_number",
                                 !.current_user_id = current_user_id,
                                 !.order_number = order_number]
           o == Order_find_one(order_number)
       IN IF o = 0
          THEN /\ Finish(r, Response(404, "Order not found", -1))
               /\ loc' = [loc EXCEPT ![r] = l0]
          ELSE IF access_denied(orders[o], current_user_id)
          THEN /\ Finish(r, Response(403, "Access denied", -1))
               /\ loc' = [loc EXCEPT ![r] = l0]
          ELSE /\ Finish(r, Response(200, "OK", -1))
               /\ loc' = [loc EXCEPT ![r] = [l0 EXCEPT !.order = orders[o]]]

\* the inputs of the read runs: the orders are u1's (a1 is no address of u2)
ReadRequests ==
    [callers |-> {"u1", "u2"},
     creates |-> { OrderCreate(<<OrderItemCreate("p1", "v2", 1)>>, "a1", "None", "pm1") },
     updates |-> [status : {"cancelled"}, note : {"changed my mind"}]]

StatusFilters == {"None", "pending", "cancelled"}

Pages == {1, 2}

Limits == {1, 2}

ReadStep(r) ==
    \/ \E u \in ReadRequests.callers, st \in StatusFilters, p \in Pages, n \in Limits :
           get_user_orders_count(r, u, st, p, n)
    \/ get_user_orders_find(r)
    \/ \E u \in ReadRequests.callers, o \in OrderIds : get_order(r, u, o)
    \/ \E u \in ReadRequests.callers, o \in OrderIds : get_order_by_number(r, u, o)

ReadNext ==
    \E r \in Requests :
        /\ Step(r, ReadRequests) \/ ReadStep(r)
        /\ UNCHANGED <<hist, reviews, review_votes>>

ReadSpec == Init /\ [][ReadNext]_vars

(***************************************************************************)
(* The cart endpoints (api/v1/endpoints/cart.py).  get_current_user_id      *)
(* always yields a user id, so get_cart_by_user_or_session looks the cart   *)
(* up by user_id and never by the X-Session-ID header; the header reaches   *)
(* only create_cart_for_user_or_session.                                    *)
(***************************************************************************)
\* 36-46: Cart(user_id=..., session_id=...) is built without expires_at, which
\* cart.py 61 declares required; a required field that is not supplied is
\* rejected before any validator runs, so set_expiry (cart.py 73-79) does not
\* supply it: the constructor raises and nothing is saved
\* (whatever user_id and session_id it is called with)
create_cart_for_user_or_session(r) ==
    Finish(r, Response(500, "ValidationError", -1))

\* 49-86: Product.get of every item; loading a stored product with a negative
\* inventory raises
populate_cart_items(r, cart) ==
    IF \E i \in 1..Len(cart.items) :
          /\ cart.items[i].product_id \in DOMAIN products
          /\ ~Product_valid(products[cart.items[i].product_id])
    THEN Finish(r, Response(500, "ValidationError", -1))
    ELSE Finish(r, Response(200, "OK", -1))

\* 89-111
get_cart(r, user_id, x_session_id) ==
    /\ pc[r] = "idle"
    /\ UNCHANGED db
    /\ LET l0 == [IdleLoc EXCEPT !.op = "get_cart", !.current_user_id = user_id,
                                 !.session_id = x_session_id]
           c == Cart_find_one(user_id)
       IN IF c = 0
          THEN /\ create_cart_for_user_or_session(r)
               /\ loc' = [loc EXCEPT ![r] = l0]
          ELSE /\ populate_cart_items(r, carts[c])
               /\ loc' = [loc EXCEPT ![r] =
                     [l0 EXCEPT !.cart_id = c, !.cart = carts[c]]]

\* 134-154: Product.get, the variant lookup and the stock check
add_item_to_cart_get_product(r, user_id, x_session_id, item_data) ==
    /\ pc[r] = "idle"
    /\ UNCHANGED db
    /\ LET l0 == [IdleLoc EXCEPT !.op = "add_item_to_cart",
                                 !.current_user_id = user_id,
                                 !.session_id = x_session_id,
                                 !.item_data = item_data]
       IN IF item_data.product_id \notin DOMAIN products
          THEN /\ Finish(r, Response(404, "Product not found", -1))
               /\ loc' = [loc EXCEPT ![r] = l0]
          ELSE
          LET product == products[item_data.product_id]
              vi == get_variant_by_id(product, item_data.variant_id)
          IN IF ~Product_valid(product)
             THEN /\ Finish(r, Response(500, "ValidationError", -1))
                  /\ loc' = [loc EXCEPT ![r] = l0]
             ELSE IF vi = 0
             THEN /\ Finish(r, Response(404, "Product variant not found", -1))
                  /\ loc' = [loc EXCEPT ![r] = l0]
             ELSE IF product.variants[vi].inventory.quantity < item_data.quantity
             THEN /\ Finish(r, Response(400, "Insufficient stock",
                                        product.variants[vi].inventory.quantity))
                  /\ loc' = [loc EXCEPT ![r] = l0]
             ELSE /\ Goto(r, "ai_find_cart")
                  /\ loc' = [loc EXCEPT ![r] =
                        [l0 EXCEPT !.price = product.variants[vi].price]]

\* 157-167: the cart is looked up (or created) and the item added to the copy
add_item_to_cart_find_cart(r) ==
    /\ pc[r] = "ai_find_cart"
    /\ UNCHANGED db
    /\ LET l == loc[r]
           c == Cart_find_one(l.current_user_id)
       IN IF c = 0
          THEN /\ create_cart_for_user_or_session(r)
               /\ UNCHANGED loc
          ELSE /\ Goto(r, "ai_save_cart")
               /\ loc' = [loc EXCEPT
                     ![r].cart_id = c,
                     ![r].cart = add_item(carts[c], l.item_data.product_id,
                                          l.item_data.variant_id,
                                          l.item_data.quantity, l.price)]

\* 169-171: cart.save() writes the whole loaded document back
add_item_to_cart_save(r) ==
    /\ pc[r] = "ai_save_cart"
    /\ carts' = Cart_save(loc[r].cart_id, loc[r].cart)
    /\ populate_cart_items(r, loc[r].cart)
    /\ UNCHANGED <<products, users, orders, loc>>

\* 212-223: update_item_quantity on the loaded cart, and where it leads
update_cart_item_apply(r, l) ==
    LET u == update_item_quantity(l.cart, l.item_data.product_id,
                                  l.item_data.variant_id, l.item_data.quantity)
    IN IF u.success
       THEN /\ Goto(r, "uc_save_cart")
            /\ loc' = [loc EXCEPT ![r] = [l EXCEPT !.cart = u.cart]]
       ELSE /\ Finish(r, Response(404, "Item not found in cart", -1))
            /\ loc' = [loc EXCEPT ![r] = l]

\* 194-202: the cart is looked up; a positive quantity goes on to the stock check
update_cart_item_find_cart(r, user_id, item_data) ==
    /\ pc[r] = "idle"
    /\ UNCHANGED db
    /\ LET l0 == [IdleLoc EXCEPT !.op = "update_cart_item",
                                 !.current_user_id = user_id,
                                 !.item_data = item_data]
           c == Cart_find_one(user_id)
       IN IF c = 0
          THEN /\ Finish(r, Response(404, "Cart not found", -1))
               /\ loc' = [loc EXCEPT ![r] = l0]
          ELSE LET l1 == [l0 EXCEPT !.cart_id = c, !.cart = carts[c]]
               IN IF item_data.quantity > 0
                  THEN /\ Goto(r, "uc_get_product")
                       /\ loc' = [loc EXCEPT ![r] = l1]
                  ELSE update_cart_item_apply(r, l1)

\* 203-223: Product.get and the stock check, then the update of the copy
update_cart_item_get_product(r) ==
    /\ pc[r] = "uc_get_product"
    /\ UNCHANGED db
    /\ LET l == loc[r]
           pid == l.item_data.product_id
       IN IF pid \notin DOMAIN products
          THEN update_cart_item_apply(r, l)
          ELSE
          LET product == products[pid]
              vi == get_variant_by_id(product, l.item_data.variant_id)
          IN IF ~Product_valid(product)
             THEN /\ Finish(r, Response(500, "ValidationError", -1))
                  /\ UNCHANGED loc
             ELSE IF /\ vi # 0
                     /\ product.variants[vi].inventory.quantity < l.item_data.quantity
             THEN /\ Finish(r, Response(400, "Insufficient stock",
                                        product.variants[vi].inventory.quantity))
                  /\ UNCHANGED loc
             ELSE update_cart_item_apply(r, l)

\* 225-227
update_cart_item_save(r) ==
    /\ pc[r] = "uc_save_cart"
    /\ carts' = Cart_save(loc[r].cart_id, loc[r].cart)
    /\ populate_cart_items(r, loc[r].cart)
    /\ UNCHANGED <<products, users, orders, loc>>

\* 250-266: the cart is looked up and the item removed from the copy
remove_cart_item_find_cart(r, user_id, item_data) ==
    /\ pc[r] = "idle"
    /\ UNCHANGED db
    /\ LET l0 == [IdleLoc EXCEPT !.op = "remove_cart_item",
                                 !.current_user_id = user_id,
                                 !.item_data = item_data]
           c == Cart_find_one(user_id)
       IN IF c = 0
          THEN /\ Finish(r, Response(404, "Cart not found", -1))
               /\ loc' = [loc EXCEPT ![r] = l0]
          ELSE LET u == remove_item(carts[c], item_data.product_id,
                                    item_data.variant_id)
               IN IF u.success
                  THEN /\ Goto(r, "rc_save_cart")
                       /\ loc' = [loc EXCEPT ![r] =
                             [l0 EXCEPT !.cart_id = c, !.cart = u.cart]]
                  ELSE /\ Finish(r, Response(404, "Item not found in cart", -1))
                       /\ loc' = [loc EXCEPT ![r] = l0]

\* 268-270
remove_cart_item_save(r) ==
    /\ pc[r] = "rc_save_cart"
    /\ carts' = Cart_save(loc[r].cart_id, loc[r].cart)
    /\ populate_cart_items(r, loc[r].cart)
    /\ UNCHANGED <<products, users, orders, loc>>

\* 291-298: the endpoint clear_cart: the cart is looked up and the copy cleared
clear_cart_find_cart(r, user_id) ==
    /\ pc[r] = "idle"
    /\ UNCHANGED db
    /\ LET l0 == [IdleLoc EXCEPT !.op = "clear_cart", !.current_user_id = user_id]
           c == Cart_find_one(user_id)
       IN IF c = 0
          THEN /\ Finish(r, Response(404, "Cart not found", -1))
               /\ loc' = [loc EXCEPT ![r] = l0]
          ELSE /\ Goto(r, "cc_save_cart")
               /\ loc' = [loc EXCEPT ![r] =
                     [l0 EXCEPT !.cart_id = c, !.cart = clear_cart(carts[c])]]

\* 299-301
clear_cart_save(r) ==
    /\ pc[r] = "cc_save_cart"
    /\ carts' = Cart_save(loc[r].cart_id, loc[r].cart)
    /\ populate_cart_items(r, loc[r].cart)
    /\ UNCHANGED <<products, users, orders, loc>>

\* a conversion that leaves the session id on the cart
convert_to_user_cart_keeps_session(cart, current_user_id) ==
    [cart EXCEPT !.user_id = current_user_id]

\* 331-332: the anonymous cart becomes the user's cart
convert_to_user_cart(cart, current_user_id) ==
    [cart EXCEPT !.user_id = current_user_id, !.session_id = "None"]

\* 320: Cart.find_one by user_id
merge_carts_find_user_cart(r, current_user_id, session_id) ==
    /\ pc[r] = "idle"
    /\ UNCHANGED db
    /\ Goto(r, "mc_find_anonymous")
    /\ LET c == Cart_find_one(current_user_id)
       IN loc' = [loc EXCEPT ![r] =
             [IdleLoc EXCEPT !.op = "merge_carts",
                             !.current_user_id = current_user_id,
                             !.session_id = session_id,
                             !.cart_id = c,
                             !.cart = IF c = 0 THEN NoCart ELSE carts[c]]]

\* 321-334: Cart.find_one by session_id and the three ways on from there
merge_carts_find_anonymous(r) ==
    /\ pc[r] = "mc_find_anonymous"
    /\ UNCHANGED db
    /\ LET l == loc[r]
           a == Cart_find_one_by_session(l.session_id)
       IN IF a = 0 \/ is_empty(carts[a])
          THEN /\ IF l.cart_id = 0
                  THEN create_cart_for_user_or_session(r)
                  ELSE populate_cart_items(r, l.cart)
               /\ UNCHANGED loc
          ELSE IF l.cart_id = 0
          THEN /\ Goto(r, "mc_save_anonymous")
               /\ loc' = [loc EXCEPT
                     ![r].anonymous_id = a,
                     ![r].anonymous_cart =
                         convert_to_user_cart(carts[a], l.current_user_id)]
          ELSE /\ Goto(r, "mc_get_product")
               /\ loc' = [loc EXCEPT ![r].anonymous_id = a,
                                     ![r].anonymous_cart = carts[a],
                                     ![r].i = 1]

\* 333-334: the converted anonymous cart is saved
merge_carts_save_anonymous(r) ==
    /\ pc[r] = "mc_save_anonymous"
    /\ carts' = Cart_save(loc[r].anonymous_id, loc[r].anonymous_cart)
    /\ populate_cart_items(r, loc[r].anonymous_cart)
    /\ UNCHANGED <<products, users, orders, loc>>

\* 337-353: one turn of the merge loop: Product.get, then add_item on the copy
\* of the user cart unless the product or the variant is gone
merge_carts_get_product(r) ==
    /\ pc[r] = "mc_get_product"
    /\ UNCHANGED db
    /\ LET l == loc[r]
           item == l.anonymous_cart.items[l.i]
           skipped == \/ item.product_id \notin DOMAIN products
                      \/ get_variant_by_id(products[item.product_id],
                                           item.variant_id) = 0
           user_cart == IF skipped THEN l.cart
                        ELSE add_item(l.cart, item.product_id, item.variant_id,
                                      item.quantity, item.price)
       IN IF /\ item.product_id \in DOMAIN products
             /\ ~Product_valid(products[item.product_id])
          THEN /\ Finish(r, Response(500, "ValidationError", -1))
               /\ UNCHANGED loc
          ELSE /\ Goto(r, IF l.i < Len(l.anonymous_cart.items)
                          THEN "mc_get_product" ELSE "mc_save_user")
               /\ loc' = [loc EXCEPT ![r].cart = user_cart, ![r].i = l.i + 1]

\* 356: the merged user cart is saved
merge_carts_save_user(r) ==
    /\ pc[r] = "mc_save_user"
    /\ carts' = Cart_save(loc[r].cart_id, loc[r].cart)
    /\ Goto(r, "mc_delete_anonymous")
    /\ UNCHANGED <<products, users, orders, loc>>

\* 357-359: the anonymous cart is deleted
merge_carts_delete_anonymous(r) ==
    /\ pc[r] = "mc_delete_anonymous"
    /\ carts' = Cart_delete(loc[r].anonymous_id)
    /\ populate_cart_items(r, loc[r].cart)
    /\ UNCHANGED <<products, users, orders, loc>>

\* the inputs of the cart requests
CartItemData(pid, vid, quantity) ==
    [product_id |-> pid, variant_id |-> vid, quantity |-> quantity]

CartRequests ==
    [callers |-> {"u1", "u2"},
     adds |-> { CartItemData("p1", "v1", 1), CartItemData("p1", "v1", 2),
                CartItemData("p1", "v2", 1), CartItemData("p1", "v2", 2),
                CartItemData("p9", "v1", 1), CartItemData("p1", "v9", 1) },
     updates |-> { CartItemData("p1", "v1", 0), CartItemData("p1", "v1", 1),
                   CartItemData("p1", "v2", 2), CartItemData("p1", "v2", 3),
                   CartItemData("p9", "v1", 1) },
     removes |-> { CartItemData("p1", "v1", 0), CartItemData("p1", "v2", 0) },
     mergers |-> {"u1", "u2"},
     sessions |-> {"s1", "s2", "s9"},
     headers |-> {"None", "s1"}]

ConcurrentCartRequests ==
    [callers |-> {"u1"},
     adds |-> { CartItemData("p1", "v2", 1) },
     updates |-> { CartItemData("p1", "v1", 0), CartItemData("p1", "v2", 2) },
     removes |-> { CartItemData("p1", "v1", 0) },
     mergers |-> {"u1", "u2"},
     sessions |-> {"s1", "s2"},
     headers |-> {"None"}]

\* the units in the cart of a user, 0 when there is no cart
CartUnits(user_id) ==
    IF Cart_find_one(user_id) = 0 THEN 0
    ELSE CartCount(carts[Cart_find_one(user_id)].items)

CartStep(r, m) ==
    \/ \E u \in m.callers, h \in m.headers : get_cart(r, u, h)
    \/ \E u \in m.callers, h \in m.headers, d \in m.adds :
           /\ CartUnits(u) < MaxCartUnits
           /\ add_item_to_cart_get_product(r, u, h, d)
    \/ /\ CartUnits(loc[r].current_user_id) < MaxCartUnits
       /\ add_item_to_cart_find_cart(r)
    \/ add_item_to_cart_save(r)
    \/ \E u \in m.callers, d \in m.updates : update_cart_item_find_cart(r, u, d)
    \/ update_cart_item_get_product(r)
    \/ update_cart_item_save(r)
    \/ \E u \in m.callers, d \in m.removes : remove_cart_item_find_cart(r, u, d)
    \/ remove_cart_item_save(r)
    \/ \E u \in m.callers : clear_cart_find_cart(r, u)
    \/ clear_cart_save(r)
    \/ \E u \in m.mergers, sid \in m.sessions : merge_carts_find_user_cart(r, u, sid)
    \/ merge_carts_find_anonymous(r)
    \/ merge_carts_save_anonymous(r)
    \/ merge_carts_get_product(r)
    \/ merge_carts_save_user(r)
    \/ merge_carts_delete_anonymous(r)
    \/ respond(r)

CartNext ==
    \E r \in Requests :
        /\ CartStep(r, ConcurrentCartRequests)
        /\ UNCHANGED <<hist, reviews, review_votes>>

CartSpec == Init /\ [][CartNext]_vars

\* the inputs of two cart edits of u1 sent at the same time
CartEdits ==
    [adds |-> { CartItemData("p1", "v1", 1), CartItemData("p1", "v2", 1),
                CartItemData("p1", "v2", 2) },
     updates |-> { CartItemData("p1", "v1", 0), CartItemData("p1", "v1", 1),
                   CartItemData("p1", "v2", 2) },
     removes |-> { CartItemData("p1", "v1", 0), CartItemData("p1", "v2", 0) }]

\* one add, update or remove request per request slot, all on the cart of u1
CartEditStep(r) ==
    \/ \E d \in CartEdits.adds : add_item_to_cart_get_product(r, "u1", "None", d)
    \/ add_item_to_cart_find_cart(r)
    \/ add_item_to_cart_save(r)
    \/ \E d \in CartEdits.updates : update_cart_item_find_cart(r, "u1", d)
    \/ update_cart_item_get_product(r)
    \/ update_cart_item_save(r)
    \/ \E d \in CartEdits.removes : remove_cart_item_find_cart(r, "u1", d)
    \/ remove_cart_item_save(r)

CartEditNext ==
    \E r \in Requests : CartEditStep(r) /\ UNCHANGED <<hist, reviews, review_votes>>

CartEditSpec == Init /\ [][CartEditNext]_vars

CartSerialNext ==
    \E r \in Requests :
        /\ Serial(r) /\ CartStep(r, CartRequests) /\ Record(r)
        /\ UNCHANGED <<reviews, review_votes>>

CartSerialSpec == Init /\ [][CartSerialNext]_vars

(***************************************************************************)
(* The review endpoints (api/v1/endpoints/reviews.py).                     *)
(***************************************************************************)
\* 251-256: Review.get, 404 for a review that is not stored
vote_on_review_get_review(r, review_id, is_helpful, current_user_id) ==
    /\ pc[r] = "idle"
    /\ UNCHANGED db
    /\ loc' = [loc EXCEPT ![r] =
          [IdleLoc EXCEPT !.op = "vote_on_review",
                          !.current_user_id = current_user_id,
                          !.review_id = review_id,
                          !.is_helpful = is_helpful]]
    /\ IF review_id \notin DOMAIN reviews
       THEN Finish(r, Response(404, "Review not found", -1))
       ELSE Goto(r, "vr_find_vote")

\* 259-263: ReviewVote.find_one.  ReviewVote is not among the document
\* classes given to init_beanie, so the class has no collection and no
\* query fields: the lookup raises, the request ends with 500 and lines
\* 265-280 (the vote saved, the counts of the review raised) are not reached
vote_on_review_find_vote(r) ==
    /\ pc[r] = "vr_find_vote"
    /\ "ReviewVote" \notin document_models
    /\ Finish(r, Response(500, "CollectionWasNotInitialized", -1))
    /\ UNCHANGED <<db, loc>>

ReviewIds == {"rv1", "rv2", "rv9"}

ReviewStep(r) ==
    \/ \E v \in ReviewIds, h \in BOOLEAN, u \in {"u1", "u2"} :
           vote_on_review_get_review(r, v, h, u)
    \/ vote_on_review_find_vote(r)
    \/ respond(r)

ReviewNext ==
    \E r \in Requests : ReviewStep(r) /\ UNCHANGED <<hist, reviews, review_votes>>

ReviewSpec == Init /\ [][ReviewNext]_vars

\* a purchase check that takes any cited order as proof
product_in_order_always(order, product_id) == TRUE

\* 187-191: the product is among the items of the order
product_in_order(order, product_id) ==
    \E i \in 1..Len(order.items) : order.items[i].product_id = product_id

\* models/product.py 191-202: one more review in the rating summary
update_rating(product) == [product EXCEPT !.rating_summary.total_reviews = @ + 1]

\* Review.find_one(product_id, user_id): whether this user has a review of
\* this product
Review_exists(product_id, user_id) ==
    \E v \in DOMAIN reviews :
        reviews[v].product_id = product_id /\ reviews[v].user_id = user_id

\* Order.find_one(Order.id == order_id, Order.user_id == user_id): the place
\* of the order, 0 for None.  order_id arrives as a str and is compared with
\* the ObjectId in _id as it is: same_type tells whether the driver takes the
\* two for equal
Order_find_one_of_user(order_id, user_id, same_type) ==
    IF /\ same_type
       /\ order_id \in 1..Len(orders)
       /\ orders[order_id].user_id = user_id
    THEN order_id ELSE 0

\* 154-159: Product.get, 404 for a missing product
create_review_get_product(r, current_user_id, product_id, order_id) ==
    /\ pc[r] = "idle"
    /\ UNCHANGED <<db, reviews>>
    /\ LET l0 == [IdleLoc EXCEPT
                     !.op = "create_review",
                     !.current_user_id = current_user_id,
                     !.review = [Review(product_id, current_user_id)
                                    EXCEPT !.order_id = order_id]]
       IN IF product_id \notin DOMAIN products
          THEN /\ Finish(r, Response(404, "Product not found", -1))
               /\ loc' = [loc EXCEPT ![r] = l0]
          ELSE IF ~Product_valid(products[product_id])
          THEN /\ Finish(r, Response(500, "ValidationError", -1))
               /\ loc' = [loc EXCEPT ![r] = l0]
          ELSE /\ Goto(r, "cr_find_review")
               /\ loc' = [loc EXCEPT ![r] =
                     [l0 EXCEPT !.product = products[product_id]]]

\* 162-170: Review.find_one, 400 for a second review of the product;
\* 173-174: without an order_id the review goes on unverified
create_review_find_review(r) ==
    /\ pc[r] = "cr_find_review"
    /\ UNCHANGED <<db, reviews, loc>>
    /\ IF Review_exists(loc[r].review.product_id, loc[r].current_user_id)
       THEN Finish(r, Response(400, "You have already reviewed this product", -1))
       ELSE Goto(r, IF loc[r].review.order_id # 0
                    THEN "cr_find_order" ELSE "cr_save_review")

\* 174-191: Order.find_one by id and owner, and the search of its items
create_review_find_order(r) ==
    /\ pc[r] = "cr_find_order"
    /\ UNCHANGED <<db, reviews>>
    /\ Goto(r, "cr_save_review")
    /\ \E same_type \in BOOLEAN :
           LET l == loc[r]
               o == Order_find_one_of_user(l.review.order_id,
                                           l.current_user_id, same_type)
           IN loc' = [loc EXCEPT ![r].review.verified_purchase =
                        /\ o # 0
                        /\ product_in_order(orders[o], l.review.product_id)]

\* 194-207: the review is inserted under a new id
create_review_save_review(r) ==
    /\ pc[r] = "cr_save_review"
    /\ UNCHANGED <<db, loc>>
    /\ Goto(r, "cr_save_product")
    /\ LET id == CHOOSE v \in NewReviewIds : v \notin DOMAIN reviews
       IN reviews' = [v \in DOMAIN reviews \cup {id} |->
                         IF v = id THEN loc[r].review ELSE reviews[v]]

\* 210-213: update_rating on the loaded product, product.save() writes the
\* whole loaded product back; 201 Created
create_review_save_product(r) ==
    /\ pc[r] = "cr_save_product"
    /\ products' = [products EXCEPT ![loc[r].review.product_id] =
                       update_rating(loc[r].product)]
    /\ Finish(r, Response(201, "Created", -1))
    /\ UNCHANGED <<users, orders, carts, reviews, loc>>

\* the order ids a review cites: 0 for none, 9 for an order that is not stored
CitedOrderIds == {0, 1, 2, 9}

CreateReviewStep(r) ==
    \/ \E u \in {"u1", "u2"}, p \in {"p1", "p2", "p9"}, o \in CitedOrderIds :
           /\ Cardinality(DOMAIN reviews) < MaxReviews
           /\ create_review_get_product(r, u, p, o)
    \/ create_review_find_review(r)
    \/ create_review_find_order(r)
    \/ create_review_save_review(r)
    \/ create_review_save_product(r)

\* the orders the reviews cite: u1 buys p1, u2 buys p1 or p2
PurchaseRequests ==
    [callers |-> {"u1", "u2"},
     creates |-> { OrderCreate(<<OrderItemCreate("p1", "v2", 1)>>, "a1", "None", "pm1"),
                   OrderCreate(<<OrderItemCreate("p1", "v2", 1)>>, "a3", "None", "pm2"),
                   OrderCreate(<<OrderItemCreate("p2", "v1", 1)>>, "a3", "None", "pm2") },
     updates |-> [status : {"cancelled"}, note : {"changed my mind"}]]

PurchaseReviewNext ==
    \E r \in Requests :
        /\ Serial(r)
        /\ \/ Step(r, PurchaseRequests) /\ UNCHANGED reviews
           \/ CreateReviewStep(r)
        /\ Record(r)
        /\ UNCHANGED review_votes

PurchaseReviewSpec == Init /\ [][PurchaseReviewNext]_vars

(***************************************************************************)
(* update_product (api/v1/endpoints/products.py 307-344).  ProductUpdate    *)
(* carries name, description, brand and the like, and no variant or price. *)
(***************************************************************************)
\* 326-337: Product.get, 404 for a missing product; the fields of the request
\* are set on the loaded product
update_product_get_product(r, product_id, name) ==
    /\ pc[r] = "idle"
    /\ UNCHANGED db
    /\ LET l0 == [IdleLoc EXCEPT !.op = "update_product"]
       IN IF product_id \notin DOMAIN products
          THEN /\ Finish(r, Response(404, "Product not found", -1))
               /\ loc' = [loc EXCEPT ![r] = l0]
          ELSE IF ~Product_valid(products[product_id])
          THEN /\ Finish(r, Response(500, "ValidationError", -1))
               /\ loc' = [loc EXCEPT ![r] = l0]
          ELSE /\ Goto(r, "up_save_product")
               /\ loc' = [loc EXCEPT ![r] =
                     [l0 EXCEPT !.item_data.product_id = product_id,
                                !.product = [products[product_id]
                                                EXCEPT !.name = name]]]

\* 342-344: product.save() writes the whole loaded product back
update_product_save(r) ==
    /\ pc[r] = "up_save_product"
    /\ products' = [products EXCEPT ![loc[r].item_data.product_id] = loc[r].product]
    /\ Finish(r, Response(200, "OK", -1))
    /\ UNCHANGED <<users, orders, carts, loc>>

\* the names a product is given
ProductNames == {"Lamp", "Lamp II"}

\* the orders and status updates of the runs with product updates
FrameRequests ==
    [callers |-> {"u1", "u2"},
     creates |-> { OrderCreate(<<OrderItemCreate("p1", "v2", 1)>>, "a1", "None", "pm1"),
                   OrderCreate(<<OrderItemCreate("p2", "v1", 1),
                                 OrderItemCreate("p1", "v1", 1)>>, "a1", "a2", "pm1") },
     updates |-> OrderStatusUpdates]

OrderFrameNext ==
    \E r \in Requests :
        /\ Serial(r)
        /\ \/ Step(r, FrameRequests)
           \/ \E p \in {"p1", "p9"}, n \in ProductNames :
                  update_product_get_product(r, p, n)
           \/ update_product_save(r)
        /\ Record(r)
        /\ UNCHANGED <<reviews, review_votes>>

OrderFrameSpec == Init /\ [][OrderFrameNext]_vars

(***************************************************************************)
(* The address endpoints (api/v1/endpoints/users.py).                      *)
(***************************************************************************)
\* an add that leaves the other defaults of the type in place
unset_defaults_never(addresses, type) == addresses

\* 117-121: is_default = False on every address of the type
unset_defaults(addresses, type) ==
    [i \in 1..Len(addresses) |->
        IF addresses[i].type = type
        THEN [addresses[i] EXCEPT !.is_default = FALSE]
        ELSE addresses[i]]

\* 88-123: User.get, 404 for a missing user; the address is built under a
\* new address_id, the defaults of its type are unset when it is a default,
\* and it is appended to the loaded user
add_user_address_get_user(r, current_user_id, address) ==
    /\ pc[r] = "idle"
    /\ UNCHANGED db
    /\ LET l0 == [IdleLoc EXCEPT !.op = "add_user_address",
                                 !.current_user_id = current_user_id,
                                 !.address = address]
       IN IF current_user_id \notin DOMAIN users
          THEN /\ Finish(r, Response(404, "User not found", -1))
               /\ loc' = [loc EXCEPT ![r] = l0]
          ELSE LET user == users[current_user_id]
                   others == IF address.is_default
                             THEN unset_defaults(user.addresses, address.type)
                             ELSE user.addresses
               IN /\ Goto(r, "aa_save_user")
                  /\ loc' = [loc EXCEPT ![r] =
                        [l0 EXCEPT !.user =
                            [user EXCEPT !.addresses = Append(others, address)]]]

\* 126-136: user.save() writes the whole loaded user back
add_user_address_save(r) ==
    /\ pc[r] = "aa_save_user"
    /\ users' = [users EXCEPT ![loc[r].current_user_id] = loc[r].user]
    /\ Finish(r, Response(200, "OK", -1))
    /\ UNCHANGED <<products, orders, carts, loc>>

\* the addresses without the one at place i
pop_address(addresses, i) ==
    [j \in 1..(Len(addresses) - 1) |->
        IF j < i THEN addresses[j] ELSE addresses[j + 1]]

\* 143-165: User.get, 404 for a missing user; the first address with the
\* address_id is removed from the loaded user, 404 when there is none
delete_user_address_get_user(r, current_user_id, address_id) ==
    /\ pc[r] = "idle"
    /\ UNCHANGED db
    /\ LET l0 == [IdleLoc EXCEPT !.op = "delete_user_address",
                                 !.current_user_id = current_user_id,
                                 !.address = [NoAddress EXCEPT
                                                 !.address_id = address_id]]
       IN IF current_user_id \notin DOMAIN users
          THEN /\ Finish(r, Response(404, "User not found", -1))
               /\ loc' = [loc EXCEPT ![r] = l0]
          ELSE LET user == users[current_user_id]
                   hits == {i \in 1..Len(user.addresses) :
                               user.addresses[i].address_id = address_id}
               IN IF hits = {}
                  THEN /\ Finish(r, Response(404, "Address not found", -1))
                       /\ loc' = [loc EXCEPT ![r] = l0]
                  ELSE LET i == CHOOSE i \in hits : \A j \in hits : i <= j
                       IN /\ Goto(r, "da_save_user")
                          /\ loc' = [loc EXCEPT ![r] =
                                [l0 EXCEPT !.user =
                                    [user EXCEPT !.addresses =
                                        pop_address(user.addresses, i)]]]

\* 158-162: user.save() writes the whole loaded user back
delete_user_address_save(r) ==
    /\ pc[r] = "da_save_user"
    /\ users' = [users EXCEPT ![loc[r].current_user_id] = loc[r].user]
    /\ Finish(r, Response(200, "OK", -1))
    /\ UNCHANGED <<products, orders, carts, loc>>

AddressTypes == {"shipping", "billing"}

\* the addresses an add asks for, under the address_id uuid4 hands out
AddressCreates ==
    { Address("addr_1", "shipping", TRUE), Address("addr_1", "billing", TRUE),
      Address("addr_2", "shipping", TRUE), Address("addr_2", "shipping", FALSE) }

\* the address ids a delete asks for
DeleteAddressIds == {"a1", "addr_1", "addr_9"}

AddressCallers == {"u1", "u9"}

AddressStep(r) ==
    \/ \E u \in AddressCallers, a \in AddressCreates :
           /\ u \in DOMAIN users =>
                  /\ Len(users[u].addresses) < MaxAddresses
                  /\ \A i \in 1..Len(users[u].addresses) :
                         users[u].addresses[i].address_id # a.address_id
           /\ add_user_address_get_user(r, u, a)
    \/ add_user_address_save(r)
    \/ \E u \in AddressCallers, id \in DeleteAddressIds :
           delete_user_address_get_user(r, u, id)
    \/ delete_user_address_save(r)
    \/ respond(r)

AddressNext ==
    \E r \in Requests : AddressStep(r) /\ UNCHANGED <<hist, reviews, review_votes>>

AddressSpec == Init /\ [][AddressNext]_vars

(***************************************************************************)
(* Properties                                                              *)
(***************************************************************************)
\* every stored variant, as <<product id, place in the product's variants>>
Variants ==
    UNION { {<<p, i>> : i \in 1..Len(products[p].variants)} : p \in DOMAIN products }

Inventory(prods, v) == prods[v[1]].variants[v[2]].inventory

Created(r) ==
    pc[r] = "done" /\ loc[r].op = "create_order" /\ result[r].code = 201

Cancelled(r) ==
    pc[r] = "done" /\ loc[r].op = "update_order_status" /\ result[r].code = 200

\* the units of variant vid of product pid that the lines of a request ask for
RECURSIVE Units(_, _, _)
Units(items, pid, vid) ==
    IF items = <<>> THEN 0
    ELSE (IF Head(items).product_id = pid /\ Head(items).variant_id = vid
          THEN Head(items).quantity ELSE 0) + Units(Tail(items), pid, vid)

\* C1: in every reachable state, after any sequence and any interleaving of
\* create_order and update_order_status requests, every product variant has
\* inventory.quantity >= 0.
C1_QuantityNeverNegative ==
    \A v \in Variants : Inventory(products, v).quantity >= 0

\* C2: of two create_order requests for one unit of the variant p1/v1, of which
\* one unit is in stock and none has been given back by a cancellation, exactly
\* one succeeds and the other fails with InsufficientStock; both never succeed.
OneUnitOfP1V1(r) ==
    /\ pc[r] = "done"
    /\ loc[r].op = "create_order"
    /\ loc[r].current_user_id = "u1"
    /\ loc[r].order_data.items = <<OrderItemCreate("p1", "v1", 1)>>

C2_ExactlyOneSucceeds ==
    ( /\ \A r \in Requests : OneUnitOfP1V1(r)
      /\ \A o \in 1..Len(orders) : orders[o].status = "pending"
      /\ \A o \in 1..Len(orders) : \E r \in Requests : loc[r].order_id = o )
    => \E r, q \in Requests :
          /\ r # q
          /\ result[r].code = 201
          /\ result[q].code = 400 /\ result[q].detail = "Insufficient stock"

\* C3: after a successful create_order that ran alone, every variant the order
\* names has quantity decreased and reserved increased by the units ordered of
\* it, and every variant the order does not name is unchanged.
C3_OrderMovesStock ==
    \A r \in Requests : Created(r) =>
        \A v \in Variants :
            LET old == Inventory(hist.db0.products, v)
                new == Inventory(products, v)
                n == Units(loc[r].order_data.items, v[1],
                           products[v[1]].variants[v[2]].variant_id)
            IN new.quantity = old.quantity - n /\ new.reserved = old.reserved + n

C3_Witness ==
    \E r \in Requests :
        /\ Created(r)
        /\ Len(loc[r].order_data.items) = 2
        /\ loc[r].order_data.items[1] # loc[r].order_data.items[2]
        /\ \E v \in Variants : Inventory(products, v).reserved = 0

\* C4: when an order is created and the next request, with nothing running in
\* between, is its owner's cancellation, and that cancellation succeeds, the
\* quantity and reserved of every variant are the values from before create_order.
C4_CancelRestoresStock ==
    \A r \in Requests : (Cancelled(r) /\ hist.roundtrip) =>
        \A v \in Variants :
            Inventory(products, v) = Inventory(hist.order_inv0[loc[r].order_id], v)

C4_Witness ==
    \E r \in Requests :
        /\ Cancelled(r)
        /\ hist.roundtrip
        /\ Len(loc[r].order.items) = 2
        /\ \E v \in Variants : Inventory(hist.order_inv0[loc[r].order_id], v).reserved > 0

\* a request slot takes the first step of an update_order_status request
StartsUpdate(r) ==
    pc[r] = "idle" /\ pc'[r] # "idle" /\ loc'[r].op = "update_order_status"

\* C5: a status update on an order whose user_id differs from the caller ends
\* with 403 "Access denied" whatever the order's status and the requested
\* status are, and writes nothing: orders and inventory are unchanged.
C5_NonOwnerDenied ==
    [][\A r \in Requests :
         ( /\ StartsUpdate(r)
           /\ loc'[r].order_id \in 1..Len(orders)
           /\ orders[loc'[r].order_id].user_id # loc'[r].current_user_id )
         => (pc'[r] = "done" /\ result'[r].code = 403 /\ UNCHANGED db)]_vars

C5_Witness ==
    \E r \in Requests :
        /\ pc[r] = "done"
        /\ loc[r].op = "update_order_status"
        /\ result[r].code = 403
        /\ loc[r].status_update.status = "cancelled"
        /\ orders[loc[r].order_id].status = "cancelled"

\* C6: an owner's status update goes on to restore stock only when the order it
\* loaded is pending and the requested status is cancelled; every other pair
\* ends with 400 "Invalid status update" and writes nothing.  A request ends
\* with 200 only if it asked for cancelled and loaded the order as pending.
\* Once an order is cancelled its status never changes and its timeline never
\* grows, so a second cancellation appends no entry.
C6_OnlyPendingToCancelled ==
    [][ /\ \A r \in Requests :
             ( /\ StartsUpdate(r)
               /\ loc'[r].order_id \in 1..Len(orders)
               /\ orders[loc'[r].order_id].user_id = loc'[r].current_user_id )
             => IF /\ orders[loc'[r].order_id].status = "pending"
                   /\ loc'[r].status_update.status = "cancelled"
                THEN pc'[r] = "uo_restore_get"
                ELSE /\ pc'[r] = "done"
                     /\ result'[r] = Response(400, "Invalid status update", -1)
                     /\ UNCHANGED db
        /\ \A r \in Requests :
             (pc[r] # "done" /\ pc'[r] = "done" /\ result'[r].code = 200)
             => /\ loc[r].status_update.status = "cancelled"
                /\ Len(loc[r].order.timeline) >= 2
                /\ loc[r].order.timeline[Len(loc[r].order.timeline) - 1].status
                       = "pending"
        /\ \A o \in 1..Len(orders) :
             orders[o].status = "cancelled"
             => /\ orders'[o].status = "cancelled"
                /\ Len(orders'[o].timeline) = Len(orders[o].timeline) ]_vars

C6_Witness ==
    \E r \in Requests :
        /\ pc[r] = "done"
        /\ loc[r].op = "update_order_status"
        /\ result[r] = Response(400, "Invalid status update", -1)
        /\ loc[r].status_update.status = "cancelled"
        /\ orders[loc[r].order_id].status = "cancelled"
        /\ orders[loc[r].order_id].user_id = loc[r].current_user_id

\* how the lines of a create_order request stand against the stored products
LineFound(prods, line) ==
    /\ line.product_id \in DOMAIN prods
    /\ \E i \in 1..Len(prods[line.product_id].variants) :
           prods[line.product_id].variants[i].variant_id = line.variant_id

LineStock(prods, line) ==
    LET vs == prods[line.product_id].variants
        i == CHOOSE k \in 1..Len(vs) :
                 /\ vs[k].variant_id = line.variant_id
                 /\ \A j \in 1..(k - 1) : vs[j].variant_id # line.variant_id
    IN vs[i].inventory.quantity

LineShort(prods, line) ==
    LineFound(prods, line) /\ LineStock(prods, line) < line.quantity

\* the user, the shipping address and the payment method of the request exist
Resolves(r) ==
    /\ loc[r].current_user_id \in DOMAIN hist.db0.users
    /\ \E i \in 1..Len(hist.db0.users[loc[r].current_user_id].addresses) :
           hist.db0.users[loc[r].current_user_id].addresses[i].address_id
               = loc[r].order_data.shipping_address_id
    /\ \E i \in 1..Len(hist.db0.users[loc[r].current_user_id].payment_methods) :
           hist.db0.users[loc[r].current_user_id].payment_methods[i].method_id
               = loc[r].order_data.payment_method_id

\* the request that ran alone has written nothing
NothingMutated ==
    /\ products = hist.db0.products
    /\ users = hist.db0.users
    /\ orders = hist.db0.orders
    /\ carts = hist.db0.carts

CreateEnded(r) == pc[r] = "done" /\ loc[r].op = "create_order"

\* C7: a create_order request (its user, address and payment method exist, its
\* lines name stored variants) with a line that asks for more units than the
\* variant's inventory.quantity fails with InsufficientStock reporting the
\* available quantity of the first such line, and mutates nothing: no order,
\* no inventory, no cart, no loyalty change.
C7_ShortLineFailsInsufficientStock ==
    \A r \in Requests :
        LET items == loc[r].order_data.items
            prods == hist.db0.products
        IN ( /\ CreateEnded(r)
             /\ Resolves(r)
             /\ \A i \in 1..Len(items) : LineFound(prods, items[i])
             /\ \E i \in 1..Len(items) : LineShort(prods, items[i]) )
           => /\ \E i \in 1..Len(items) :
                    /\ LineShort(prods, items[i])
                    /\ \A j \in 1..(i - 1) : ~LineShort(prods, items[j])
                    /\ result[r] = Response(400, "Insufficient stock",
                                            LineStock(prods, items[i]))
              /\ NothingMutated

\* C8: a create_order request fails with 404 and mutates nothing whenever its
\* user does not exist, its shipping address or payment method matches none of
\* the user's, or the first of its lines that cannot be ordered names a
\* product or variant that does not exist.
C8_MissingEntityFailsNotFound ==
    \A r \in Requests :
        LET items == loc[r].order_data.items
            prods == hist.db0.products
        IN ( /\ CreateEnded(r)
             /\ \/ ~Resolves(r)
                \/ \E i \in 1..Len(items) :
                      /\ ~LineFound(prods, items[i])
                      /\ \A j \in 1..(i - 1) : /\ LineFound(prods, items[j])
                                               /\ ~LineShort(prods, items[j]) )
           => (result[r].code = 404 /\ NothingMutated)

\* C9: the summary of every stored order is the reference calculation over its
\* items, in cents: subtotal = sum of price * quantity; tax = subtotal * 0.08
\* rounded to the cent; shipping = 0 if and only if subtotal >= 50.00 and 9.99
\* otherwise; discount = 0; total = subtotal + tax + shipping - discount; and
\* payment.amount = summary.total.
RECURSIVE PriceTimesQuantity(_)
PriceTimesQuantity(items) ==
    IF items = <<>> THEN 0
    ELSE Head(items).price * Head(items).quantity + PriceTimesQuantity(Tail(items))

C9_SummaryIsReference ==
    \A o \in 1..Len(orders) :
        LET sm == orders[o].summary
        IN /\ sm.subtotal = PriceTimesQuantity(orders[o].items)
           /\ 100 * sm.tax - 8 * sm.subtotal \in -50..50
           /\ (sm.shipping = 0) <=> (sm.subtotal >= 5000)
           /\ sm.shipping \in {0, 999}
           /\ sm.discount = 0
           /\ sm.total = sm.subtotal + sm.tax + sm.shipping - sm.discount
           /\ orders[o].payment.amount = sm.total

C9_Witness ==
    \E o1, o2 \in 1..Len(orders) :
        /\ orders[o1].summary.subtotal = 5000 /\ orders[o1].summary.shipping = 0
        /\ orders[o2].summary.subtotal = 4999 /\ orders[o2].summary.shipping = 999
        /\ orders[o2].summary.tax = 400

\* C10: every stored order has a non-empty timeline whose last entry carries
\* the order's status, and an order enters the store with exactly one entry,
\* (pending, "Order placed").
C10_StatusIsLastTimelineEntry ==
    /\ [](\A o \in 1..Len(orders) :
             /\ orders[o].timeline # <<>>
             /\ orders[o].status
                    = orders[o].timeline[Len(orders[o].timeline)].status)
    /\ [][Len(orders') > Len(orders)
          => /\ Len(orders') = Len(orders) + 1
             /\ orders'[Len(orders')].timeline
                    = <<[status |-> "pending", note |-> "Order placed"]>>
             /\ orders'[Len(orders')].status = "pending"]_vars

C10_Witness ==
    \E o \in 1..Len(orders) :
        /\ orders[o].status = "cancelled"
        /\ Len(orders[o].timeline) = 2
        /\ orders[o].timeline[1] = [status |-> "pending", note |-> "Order placed"]

\* no request is in progress: every handler is idle or has sent its response
Quiescent == \A r \in Requests : pc[r] \in {"idle", "done"}

\* the units of variant vid of product pid held by the pending orders
RECURSIVE PendingUnits(_, _, _)
PendingUnits(os, pid, vid) ==
    IF os = <<>> THEN 0
    ELSE (IF Head(os).status = "pending" THEN Units(Head(os).items, pid, vid) ELSE 0)
         + PendingUnits(Tail(os), pid, vid)

\* C11: in every state with no request in progress, reached by create_order
\* and cancel requests from reserved = 0 and no orders, each variant's
\* inventory.reserved is the sum of its quantities over the pending orders, and
\* quantity + reserved is the variant's initial quantity.
C11_ReservedReconciles ==
    Quiescent =>
        \A v \in Variants :
            LET inv == Inventory(products, v)
                vid == products[v[1]].variants[v[2]].variant_id
            IN /\ inv.reserved = PendingUnits(orders, v[1], vid)
               /\ inv.quantity + inv.reserved = Inventory(InitProducts, v).quantity

\* C12: in every reachable state each user's loyalty tier is the step function
\* of lifetime_spent: bronze below 1000.00, silver from 1000.00 and below
\* 2500.00, gold from 2500.00 and below 5000.00, platinum from 5000.00.
C12_TierIsStepOfLifetimeSpent ==
    \A u \in DOMAIN users :
        LET s == users[u].loyalty.lifetime_spent
            t == users[u].loyalty.tier
        IN /\ (s < 100000) <=> (t = "bronze")
           /\ (100000 <= s /\ s < 250000) <=> (t = "silver")
           /\ (250000 <= s /\ s < 500000) <=> (t = "gold")
           /\ (500000 <= s) <=> (t = "platinum")

C12_Witness ==
    /\ users["u1"].loyalty.lifetime_spent = 100000
    /\ users["u1"].loyalty.tier = "silver"
    /\ \E r \in Requests : Created(r)

\* C13: a create_order that ran alone and succeeded has raised the ordering
\* user's loyalty.points by floor(summary.total) and lifetime_spent by
\* summary.total (total in cents, floor to whole currency units); one that
\* failed has changed no user.
C13_OrderAwardsLoyalty ==
    \A r \in Requests : CreateEnded(r) =>
        IF result[r].code = 201
        THEN LET u == loc[r].current_user_id
                 total == orders[loc[r].order_id].summary.total
                 old == hist.db0.users[u].loyalty
                 new == users[u].loyalty
             IN /\ new.points = old.points + total \div 100
                /\ 100 * (new.points - old.points) <= total
                /\ total < 100 * (new.points - old.points) + 100
                /\ new.lifetime_spent = old.lifetime_spent + total
        ELSE users = hist.db0.users

C13_Witness ==
    \E r \in Requests :
        /\ Created(r)
        /\ orders[loc[r].order_id].summary.total % 100 # 0
        /\ hist.db0.users[loc[r].current_user_id].loyalty.points > 0
        /\ hist.db0.users[loc[r].current_user_id].loyalty.lifetime_spent % 100 # 0

\* C14: after a create_order that ran alone and succeeded, every cart of the
\* ordering user has no items, whatever it held before and whether or not the
\* order named those items; no cart was added or removed, and the carts of
\* other users and of anonymous sessions are as they were.
C14_OrderClearsOwnCartOnly ==
    \A r \in Requests : Created(r) =>
        /\ DOMAIN carts = DOMAIN hist.db0.carts
        /\ \A c \in DOMAIN carts :
              IF hist.db0.carts[c].user_id = loc[r].current_user_id
              THEN /\ carts[c].items = <<>>
                   /\ carts[c].user_id = hist.db0.carts[c].user_id
                   /\ carts[c].session_id = hist.db0.carts[c].session_id
              ELSE carts[c] = hist.db0.carts[c]

C14_Witness ==
    \E r \in Requests :
        /\ Created(r)
        /\ loc[r].current_user_id = "u1"
        /\ loc[r].order_data.items = <<OrderItemCreate("p2", "v1", 1)>>
        /\ \E c \in DOMAIN carts :
              /\ hist.db0.carts[c].user_id = "u1"
              /\ hist.db0.carts[c].items # <<>>
              /\ hist.db0.carts[c].items[1].product_id = "p1"
        /\ \E c \in DOMAIN carts :
              carts[c].user_id = "None" /\ carts[c].items # <<>>
        /\ \E o \in 1..Len(orders) : orders[o].user_id = "u2"

\* C15: every order the list endpoint returns, for every caller, status filter
\* (none included) and page, is an order of the caller; get_order and
\* get_order_by_number return an order only to its owner.
C15_ReadsReturnOwnOrdersOnly ==
    \A r \in Requests : (pc[r] = "done" /\ result[r].code = 200) =>
        /\ loc[r].op = "get_user_orders"
           => \A i \in 1..Len(loc[r].orders) :
                 loc[r].orders[i].user_id = loc[r].current_user_id
        /\ loc[r].op \in {"get_order", "get_order_by_number"}
           => loc[r].order.user_id = loc[r].current_user_id

\* the order a finished read or status update asked for: 0 when none is stored
TargetOrder(r) ==
    IF loc[r].op = "get_order_by_number"
    THEN Order_find_one(loc[r].order_number)
    ELSE IF loc[r].order_id \in 1..Len(orders) THEN loc[r].order_id ELSE 0

\* C16: get_order, get_order_by_number and update_order_status answer a caller
\* who does not own the order the same way whether the order exists (owned by
\* someone else) or does not exist at all.
C16_ExistenceNotRevealed ==
    \A r, q \in Requests :
        ( /\ pc[r] = "done" /\ pc[q] = "done"
          /\ loc[r].op \in {"get_order", "get_order_by_number", "update_order_status"}
          /\ loc[q].op = loc[r].op
          /\ loc[q].current_user_id = loc[r].current_user_id
          /\ TargetOrder(r) # 0
          /\ orders[TargetOrder(r)].user_id # loc[r].current_user_id
          /\ TargetOrder(q) = 0 )
        => result[r] = result[q]


\* the totals the items of a cart call for: the count of units, the subtotal
\* in cents, 8% tax and the total in hundredths of a cent, shipping in cents
RECURSIVE UnitCount(_)
UnitCount(items) ==
    IF items = <<>> THEN 0 ELSE Head(items).quantity + UnitCount(Tail(items))

RECURSIVE Amount(_)
Amount(items) ==
    IF items = <<>> THEN 0
    ELSE Head(items).price * Head(items).quantity + Amount(Tail(items))

TotalsOf(items) ==
    LET sub == Amount(items)
        ship == IF sub >= 5000 THEN 0 ELSE 999
    IN [items_count |-> UnitCount(items),
        subtotal |-> sub,
        estimated_tax |-> 8 * sub,
        estimated_shipping |-> ship,
        estimated_total |-> 100 * sub + 8 * sub + 100 * ship]

TotalsMatchItems == \A c \in DOMAIN carts : carts[c].totals = TotalsOf(carts[c].items)

FirstCart(cs, test(_)) ==
    LET hits == {c \in DOMAIN cs : test(cs[c])}
    IN {c \in hits : \A d \in hits : c <= d}

\* the quantity of one variant in the cart of a user, 0 without a cart
UserQuantity(cs, uid, pid, vid) ==
    LET of_user(cart) == cart.user_id = uid
        found == FirstCart(cs, of_user)
    IN IF found = {} THEN 0
       ELSE Units(cs[CHOOSE c \in found : TRUE].items, pid, vid)

\* the quantity of one variant in the cart of a session, 0 without a cart
SessionQuantity(cs, sid, pid, vid) ==
    LET of_session(cart) == cart.session_id = sid
        found == FirstCart(cs, of_session)
    IN IF found = {} THEN 0
       ELSE Units(cs[CHOOSE c \in found : TRUE].items, pid, vid)

Merged(r) ==
    pc[r] = "done" /\ loc[r].op = "merge_carts" /\ result[r].code = 200

\* C18: when a merge_carts request that ran alone has completed, no cart with
\* its session_id is left in the store, and for every product and variant the
\* user's cart holds the quantity it held before plus the quantity the
\* anonymous cart held.
C18_MergeAbsorbsAnonymousCart ==
    \A r \in Requests :
        Merged(r) =>
            /\ \A c \in DOMAIN carts : carts[c].session_id # loc[r].session_id
            /\ \A pid \in DOMAIN products :
                   \A vid \in {"v1", "v2"} :
                       UserQuantity(carts, loc[r].current_user_id, pid, vid) =
                           UserQuantity(hist.db0.carts, loc[r].current_user_id,
                                        pid, vid)
                           + SessionQuantity(hist.db0.carts, loc[r].session_id,
                                             pid, vid)


\* the stored votes of one user on one review
VotesOf(review_id, user_id) ==
    {i \in 1..Len(review_votes) :
        /\ review_votes[i].review_id = review_id
        /\ review_votes[i].user_id = user_id}

Defaults(u, t) ==
    {i \in 1..Len(users[u].addresses) :
        users[u].addresses[i].type = t /\ users[u].addresses[i].is_default}

\* C20: in every state reached by add_user_address and delete_user_address
\* requests, each user has at most one default address of each type.
C20_OneDefaultPerType ==
    \A u \in DOMAIN users, t \in AddressTypes : Cardinality(Defaults(u, t)) <= 1

\* an added default shipping address has taken the default from a1, which is
\* still stored
C20_Witness ==
    \E r \in Requests :
        /\ pc[r] = "done"
        /\ loc[r].op = "add_user_address"
        /\ result[r].code = 200
        /\ \E i, j \in 1..Len(users["u1"].addresses) :
               /\ users["u1"].addresses[i] = Address("a1", "shipping", FALSE)
               /\ users["u1"].addresses[j].address_id = "addr_1"
               /\ users["u1"].addresses[j].type = "shipping"
               /\ users["u1"].addresses[j].is_default


\* a create_review request that ran alone has ended with 201
Reviewed(r) ==
    pc[r] = "done" /\ loc[r].op = "create_review" /\ result[r].code = 201

\* the orders stored when the request started hold an order with this id that
\* belongs to the user and has the product among its items
PurchaseProved(order_id, user_id, product_id) ==
    /\ order_id \in 1..Len(hist.db0.orders)
    /\ hist.db0.orders[order_id].user_id = user_id
    /\ \E i \in 1..Len(hist.db0.orders[order_id].items) :
           hist.db0.orders[order_id].items[i].product_id = product_id

\* C21: the review a create_review request stores has verified_purchase = true
\* only if the order it cites was stored when the request ran, belongs to the
\* reviewing user and has the reviewed product among its items; a review that
\* cites another user's order, no stored order, or an order without the
\* product is stored with verified_purchase = false.
C21_VerifiedOnlyWithOwnOrder ==
    \A r \in Requests :
        Reviewed(r) =>
            /\ \E v \in DOMAIN reviews \cap NewReviewIds : reviews[v] = loc[r].review
            /\ loc[r].review.user_id = loc[r].current_user_id
            /\ loc[r].review.verified_purchase =>
                   PurchaseProved(loc[r].review.order_id, loc[r].current_user_id,
                                  loc[r].review.product_id)

\* u2 has reviewed p1 citing an order of u1 that holds p1, and the review is
\* stored unverified
C21_Witness ==
    \E r \in Requests :
        /\ Reviewed(r)
        /\ loc[r].current_user_id = "u2"
        /\ loc[r].review.product_id = "p1"
        /\ loc[r].review.order_id \in 1..Len(hist.db0.orders)
        /\ hist.db0.orders[loc[r].review.order_id].user_id = "u1"
        /\ PurchaseProved(loc[r].review.order_id, "u1", "p1")
        /\ ~loc[r].review.verified_purchase
        /\ \E v \in DOMAIN reviews \cap NewReviewIds : reviews[v] = loc[r].review


\* both request slots hold a create_order that ended with 201, the two orders
\* are the only ones stored, and the initial stock covers the two together
BothCreated ==
    /\ \A r \in Requests : Created(r)
    /\ Len(orders) = 2
    /\ \A v \in Variants :
           Units(orders[1].items, v[1], products[v[1]].variants[v[2]].variant_id)
           + Units(orders[2].items, v[1], products[v[1]].variants[v[2]].variant_id)
               <= Inventory(InitProducts, v).quantity

\* C22: when two create_order requests that the stock covers together have
\* both succeeded, however their steps were interleaved, every variant's quantity is its initial quantity
\* minus the units the two orders hold of it, and its reserved is that number
\* of units.
C22_ConcurrentOrdersBothCounted ==
    BothCreated =>
        \A v \in Variants :
            LET inv == Inventory(products, v)
                vid == products[v[1]].variants[v[2]].variant_id
                units == Units(orders[1].items, v[1], vid)
                         + Units(orders[2].items, v[1], vid)
            IN /\ inv.quantity = Inventory(InitProducts, v).quantity - units
               /\ inv.reserved = units


\* a cart edit has ended with 200
Edited(r) ==
    /\ pc[r] = "done"
    /\ loc[r].op \in {"add_item_to_cart", "update_cart_item", "remove_cart_item"}
    /\ result[r].code = 200

\* the cart after the edit of request r is applied to it; an update or a
\* remove of an item the cart does not hold leaves it as it is
AfterEdit(cart, r) ==
    LET d == loc[r].item_data
    IN IF loc[r].op = "add_item_to_cart"
       THEN add_item(cart, d.product_id, d.variant_id, d.quantity, loc[r].price)
       ELSE IF loc[r].op = "update_cart_item"
       THEN update_item_quantity(cart, d.product_id, d.variant_id, d.quantity).cart
       ELSE remove_item(cart, d.product_id, d.variant_id).cart

\* C23: when two edits of u1's cart (add, update or remove), sent at the same
\* time, have both ended with 200, the stored cart is the initial cart with the
\* two edits applied one after the other, in one order or the other.
C23_CartEditsSerialize ==
    (\A r \in Requests : Edited(r)) =>
        \E r, q \in Requests :
            /\ r # q
            /\ carts[1] = AfterEdit(AfterEdit(InitCarts[1], r), q)


\* request r is a create_order that has started
InCreateOrder(r) == pc[r] # "idle" /\ loc[r].op = "create_order"

\* the order of request r is the one order stored since the request started:
\* it is the caller's and it is pending
OrderPersisted(r) ==
    /\ Len(orders) = Len(hist.db0.orders) + 1
    /\ orders[Len(orders)].user_id = loc[r].current_user_id
    /\ orders[Len(orders)].status = "pending"
    /\ Len(orders[Len(orders)].items) = Len(loc[r].order_data.items)

\* every variant has moved from quantity to reserved exactly the units the
\* lines ask for, counted from the stock at the start of the request
AllReserved(items) ==
    \A v \in Variants :
        LET new == Inventory(products, v)
            old == Inventory(hist.db0.products, v)
            n == Units(items, v[1], products[v[1]].variants[v[2]].variant_id)
        IN new.quantity = old.quantity - n /\ new.reserved = old.reserved + n

\* C24: while a create_order request runs alone, inventory differs from its
\* value at the start only once the order is stored as pending; the carts and
\* the users differ only once the order is stored and every line is reserved,
\* and the user only after the cart is cleared; the orders stored before are
\* untouched.  So a request that stops after the order is stored leaves a
\* pending order whose lines are not all reserved.
C24_EffectsInOrder ==
    \A r \in Requests :
        InCreateOrder(r) =>
            /\ products # hist.db0.products => OrderPersisted(r)
            /\ (carts # hist.db0.carts \/ users # hist.db0.users) =>
                   OrderPersisted(r) /\ AllReserved(loc[r].order_data.items)
            /\ users # hist.db0.users =>
                   \A c \in DOMAIN carts :
                       carts[c].user_id = loc[r].current_user_id =>
                           carts[c].items = <<>>
            /\ \A o \in 1..Len(hist.db0.orders) : orders[o] = hist.db0.orders[o]

\* a create_order of two lines has stored its pending order and reserved the
\* first line only: cart and user are still as at the start
C24_Witness ==
    \E r \in Requests :
        /\ InCreateOrder(r)
        /\ pc[r] # "done"
        /\ OrderPersisted(r)
        /\ Len(loc[r].order_data.items) = 2
        /\ products # hist.db0.products
        /\ ~AllReserved(loc[r].order_data.items)
        /\ carts = hist.db0.carts
        /\ users = hist.db0.users


\* the request that is running, if any
Running(r) == pc[r] # "idle"

\* the fields of an order that no handler may touch once it is stored
SameFrozenFields(old, new) ==
    /\ new.items = old.items
    /\ new.summary = old.summary
    /\ new.payment = old.payment
    /\ new.shipping_address = old.shipping_address
    /\ new.billing_address = old.billing_address
    /\ new.user_id = old.user_id
    /\ new.order_number = old.order_number

\* C25: while a request runs (create_order, update_order_status or
\* update_product, one at a time), every order that was stored when it started
\* is still stored, with the same items, summary, payment, addresses, user_id
\* and order_number; an order differs from its value at the start only when
\* the request is an update_order_status of that order, and then its timeline
\* is the old timeline with exactly one entry appended and its status is that
\* entry's status.
C25_StoredOrdersAreFrozen ==
    \A r \in Requests :
        Running(r) =>
            /\ Len(orders) >= Len(hist.db0.orders)
            /\ \A o \in 1..Len(hist.db0.orders) :
                   LET old == hist.db0.orders[o]
                       new == orders[o]
                       entry == [status |-> loc[r].status_update.status,
                                 note |-> loc[r].status_update.note]
                   IN /\ SameFrozenFields(old, new)
                      /\ \/ new = old
                         \/ /\ loc[r].op = "update_order_status"
                            /\ loc[r].order_id = o
                            /\ new.timeline = Append(old.timeline, entry)
                            /\ new.status = entry.status

\* an order whose product was renamed after it was placed has been cancelled:
\* its snapshot keeps the old name and its timeline has gained the entry
C25_Witness ==
    \E r \in Requests :
        /\ Cancelled(r)
        /\ LET order == orders[loc[r].order_id]
           IN /\ order.status = "cancelled"
              /\ Len(order.timeline) = 2
              /\ order.items[1].product_id = "p1"
              /\ order.items[1].name = "Lamp"
              /\ products["p1"].name = "Lamp II"


\* C26: after any sequence of cart requests (get_cart and add_item_to_cart
\* with or without an X-Session-ID header beside the authenticated user,
\* merge_carts, and the other cart edits), every stored cart has exactly one
\* owner kind: a user_id and no session_id, or a session_id and no user_id.
C26_OneOwnerKind ==
    \A c \in DOMAIN carts :
        \/ carts[c].user_id # "None" /\ carts[c].session_id = "None"
        \/ carts[c].user_id = "None" /\ carts[c].session_id # "None"

\* the anonymous cart of session s1 has become the cart of u2, and u2 has then
\* read it with the header of that session still on the request
C26_Witness ==
    \E r \in Requests, c \in DOMAIN carts :
        /\ pc[r] = "done" /\ loc[r].op = "get_cart" /\ result[r].code = 200
        /\ loc[r].current_user_id = "u2" /\ loc[r].session_id = "s1"
        /\ loc[r].cart_id = c
        /\ InitCarts[c].session_id = "s1"
        /\ carts[c].user_id = "u2"


\* C27: a create_order request that ran alone and ended 201 asked, for every
\* variant, for no more units over all its lines together than the variant's
\* inventory.quantity held when the request started.
C27_CombinedLinesFitStock ==
    \A r \in Requests : Created(r) =>
        \A v \in Variants :
            Units(loc[r].order_data.items, v[1],
                  products[v[1]].variants[v[2]].variant_id)
                <= Inventory(hist.db0.products, v).quantity


\* the timeline entries with this status
RECURSIVE Entries(_, _)
Entries(timeline, status) ==
    IF timeline = <<>> THEN 0
    ELSE (IF Head(timeline).status = status THEN 1 ELSE 0)
         + Entries(Tail(timeline), status)

\* both request slots hold a cancel request of the same order, answered 200,
\* and that order is the only one ever placed
BothCancelled ==
    /\ Len(orders) = 1
    /\ \A r \in Requests : Cancelled(r) /\ loc[r].order_id = 1

\* C28: when two cancel requests of the same pending order, sent by its owner
\* and served concurrently, have both been answered, the stock has been
\* restored once: every variant is back at the quantity it had before the
\* order was placed, with reserved 0 (each item's units moved back exactly
\* once, reserved not negative), and the order's timeline holds exactly one
\* cancelled entry.
C28_ConcurrentCancelsRestoreOnce ==
    BothCancelled =>
        /\ \A v \in Variants :
               /\ Inventory(products, v).quantity = Inventory(InitProducts, v).quantity
               /\ Inventory(products, v).reserved = 0
        /\ Entries(orders[1].timeline, "cancelled") = 1


\* the ReviewVote records of a review, and those among them that say helpful
ReviewVotes(review_id) ==
    {i \in 1..Len(review_votes) : review_votes[i].review_id = review_id}

HelpfulVotes(review_id) ==
    {i \in ReviewVotes(review_id) : review_votes[i].is_helpful}

Added(r) ==
    pc[r] = "done" /\ loc[r].op = "add_item_to_cart" /\ result[r].code = 200

\* C30: after an add_item_to_cart request that ran alone and ended 200, the
\* caller's cart holds of the variant the request named no more units than the
\* variant's inventory.quantity (which no cart request changes).
C30_CartQuantityWithinStock ==
    \A r \in Requests : Added(r) =>
        LET pid == loc[r].item_data.product_id
            vid == loc[r].item_data.variant_id
            vi == get_variant_by_id(products[pid], vid)
        IN UserQuantity(carts, loc[r].current_user_id, pid, vid)
               <= products[pid].variants[vi].inventory.quantity

============================================================================
